---- MODULE Spec2Model ----
(***************************************************************************)
(* codex-notify: the approval popup helper (approval_action_notifier.swift) *)
(* and the hook / notification presenter of main.go, as state machines.     *)
(* Strings are TLA+ strings; where the code looks at characters (trimming,  *)
(* integer parsing) the operators below do the same with SubSeq and Len.    *)
(***************************************************************************)
EXTENDS Integers, Sequences, FiniteSets, Bags, TLC

\* ------------------------------------------------------------------ bounds

\* How many choice commands one helper run may start before the model stops
\* delivering further choice clicks.
MaxExec == 2

\* ------------------------------------------------------------------ strings

\* The element of a one-element set.  Only({e : x \in {v}}) is e with x bound
\* to the value of v, computed once however often e uses it.
Only(S) == CHOOSE x \in S : TRUE

Ch(s, i) == SubSeq(s, i, i)

IsSpaceChar(c) == c \in {" ", "\t", "\n"}

RECURSIVE TrimLeft(_)
TrimLeft(s) ==
    IF Len(s) > 0 /\ IsSpaceChar(Ch(s, 1)) THEN TrimLeft(SubSeq(s, 2, Len(s))) ELSE s

RECURSIVE TrimRight(_)
TrimRight(s) ==
    IF Len(s) > 0 /\ IsSpaceChar(Ch(s, Len(s)))
    THEN TrimRight(SubSeq(s, 1, Len(s) - 1))
    ELSE s

\* Swift trimmingCharacters(in: .whitespacesAndNewlines), Go strings.TrimSpace.
TrimSpace(s) == TrimRight(TrimLeft(s))

IsDigitChar(c) == c \in {"0", "1", "2", "3", "4", "5", "6", "7", "8", "9"}

DigitValue(c) ==
    CASE c = "0" -> 0 [] c = "1" -> 1 [] c = "2" -> 2 [] c = "3" -> 3
      [] c = "4" -> 4 [] c = "5" -> 5 [] c = "6" -> 6 [] c = "7" -> 7
      [] c = "8" -> 8 [] c = "9" -> 9

RECURSIVE DigitsValue(_, _)
DigitsValue(s, acc) ==
    IF Len(s) = 0 THEN acc
    ELSE DigitsValue(SubSeq(s, 2, Len(s)), acc * 10 + DigitValue(Ch(s, 1)))

AllDigits(s) == Len(s) > 0 /\ \A i \in 1..Len(s) : IsDigitChar(Ch(s, i))

\* Decimal integer parsing as Swift's Int(String) and Go's strconv.Atoi do it:
\* an optional sign, then one or more digits, nothing else (no blanks).
\* <<>> is "no value" (nil / an error), <<n>> is the parsed integer.  The
\* strings of the model are far too short to leave the 64-bit range.
ParseInt(s) ==
    IF Len(s) > 0 /\ Ch(s, 1) \in {"+", "-"}
    THEN Only({ IF AllDigits(rest)
                THEN IF Ch(s, 1) = "-" THEN <<0 - DigitsValue(rest, 0)>>
                                       ELSE <<DigitsValue(rest, 0)>>
                ELSE <<>> : rest \in {SubSeq(s, 2, Len(s))} })
    ELSE IF AllDigits(s) THEN <<DigitsValue(s, 0)>> ELSE <<>>

OrElse(opt, default) == IF opt = <<>> THEN default ELSE opt[1]

Min(a, b) == IF a < b THEN a ELSE b
Max(a, b) == IF a > b THEN a ELSE b

UpperLetters == "ABCDEFGHIJKLMNOPQRSTUVWXYZ"
LowerLetters == "abcdefghijklmnopqrstuvwxyz"
DigitChars == "0123456789"

Contains(chars, c) == \E i \in 1..Len(chars) : Ch(chars, i) = c

IndexIn(chars, c) == CHOOSE i \in 1..Len(chars) : Ch(chars, i) = c

ToLowerChar(c) ==
    IF Contains(UpperLetters, c) THEN Ch(LowerLetters, IndexIn(UpperLetters, c)) ELSE c

\* strings.ToLower / String.lowercased() on the letters A-Z.
RECURSIVE ToLower(_)
ToLower(s) ==
    IF Len(s) = 0 THEN s
    ELSE ToLowerChar(Ch(s, 1)) \o ToLower(SubSeq(s, 2, Len(s)))

\* strings.ReplaceAll(s, old, new) for a one-character old.
RECURSIVE ReplaceAll(_, _, _)
ReplaceAll(s, old, new) ==
    IF Len(s) = 0 THEN s
    ELSE (IF Ch(s, 1) = old THEN new ELSE Ch(s, 1))
             \o ReplaceAll(SubSeq(s, 2, Len(s)), old, new)

HasPrefix(s, prefix) ==
    Len(s) >= Len(prefix) /\ SubSeq(s, 1, Len(prefix)) = prefix

\* strings.Contains(s, sub)
ContainsText(s, sub) ==
    \E i \in 1..(Len(s) - Len(sub) + 1) : SubSeq(s, i, i + Len(sub) - 1) = sub

\* strings.Trim(s, "-")
RECURSIVE TrimDashes(_)
TrimDashes(s) ==
    IF Len(s) > 0 /\ Ch(s, 1) = "-" THEN TrimDashes(SubSeq(s, 2, Len(s)))
    ELSE IF Len(s) > 0 /\ Ch(s, Len(s)) = "-" THEN TrimDashes(SubSeq(s, 1, Len(s) - 1))
    ELSE s

\* strings.Join(strings.Fields(s), " "): runs of white space become one
\* blank, leading and trailing white space goes.
\* The last index of the first word of t, which starts with a non-blank.
wordEndOf(t) ==
    CHOOSE k \in 1..Len(t) :
        /\ \A j \in 1..k : ~IsSpaceChar(Ch(t, j))
        /\ (k = Len(t) \/ IsSpaceChar(Ch(t, k + 1)))

RECURSIVE CollapseSpaces(_)
CollapseSpaces(s) ==
    Only({ IF Len(t) = 0 THEN t
           ELSE Only({ Only({ IF Len(rest) = 0 THEN SubSeq(t, 1, wordEnd)
                              ELSE SubSeq(t, 1, wordEnd) \o " " \o rest :
                              rest \in {CollapseSpaces(SubSeq(t, wordEnd + 1, Len(t)))} }) :
                       wordEnd \in {wordEndOf(t)} }) :
           t \in {TrimLeft(s)} })

RECURSIVE JoinWith(_, _)
JoinWith(parts, sep) ==
    IF Len(parts) = 0 THEN ""
    ELSE IF Len(parts) = 1 THEN parts[1]
    ELSE parts[1] \o sep \o JoinWith(Tail(parts), sep)

DigitChar(d) == Ch(DigitChars, d + 1)

\* strconv.Itoa
RECURSIVE Itoa(_)
Itoa(n) ==
    IF n < 0 THEN "-" \o Itoa(0 - n)
    ELSE IF n < 10 THEN DigitChar(n)
    ELSE Itoa(n \div 10) \o DigitChar(n % 10)

\* ------------------------------------------------------------------ helper: parseArgs

FirstIndexOf(args, key) ==
    IF \E i \in 1..Len(args) : args[i] = key
    THEN CHOOSE i \in 1..Len(args) :
             args[i] = key /\ \A j \in 1..(i - 1) : args[j] # key
    ELSE 0

\* value(key): the argument after the first occurrence of key, if any.
value(args, key) ==
    Only({ IF idx # 0 /\ idx + 1 <= Len(args) THEN <<args[idx + 1]>> ELSE <<>> :
           idx \in {FirstIndexOf(args, key)} })

RECURSIVE valuesFrom(_, _, _)
valuesFrom(args, key, idx) ==
    IF idx > Len(args) THEN <<>>
    ELSE IF args[idx] = key /\ idx + 1 <= Len(args)
         THEN <<args[idx + 1]>> \o valuesFrom(args, key, idx + 2)
         ELSE valuesFrom(args, key, idx + 1)

\* values(key): the argument after every occurrence of key, scanning left to
\* right and skipping the value just taken.
values(args, key) == valuesFrom(args, key, 1)

DefaultTimeoutSeconds == 45
MinTimeoutSeconds == 5
MaxTimeoutSeconds == 300

\* The helper's rule for --timeout-seconds.
helperTimeoutSeconds(timeoutRaw) ==
    Max(MinTimeoutSeconds,
        Min(MaxTimeoutSeconds, OrElse(ParseInt(timeoutRaw), DefaultTimeoutSeconds)))

\* The pairing loop of parseArgs that keeps a pair whose command is empty.
RECURSIVE pairChoicesKeepingEmptyCommands(_, _, _, _)
pairChoicesKeepingEmptyCommands(labels, commands, i, count) ==
    IF i > count THEN <<>>
    ELSE Only({ IF label = ""
                THEN pairChoicesKeepingEmptyCommands(labels, commands, i + 1, count)
                ELSE <<[label |-> label, command |-> command]>>
                         \o pairChoicesKeepingEmptyCommands(labels, commands, i + 1, count) :
                label \in {TrimSpace(labels[i])}, command \in {TrimSpace(commands[i])} })

RECURSIVE pairChoices(_, _, _, _)
pairChoices(labels, commands, i, count) ==
    IF i > count THEN <<>>
    ELSE Only({ IF label = "" \/ command = ""
                THEN pairChoices(labels, commands, i + 1, count)
                ELSE <<[label |-> label, command |-> command]>>
                         \o pairChoices(labels, commands, i + 1, count) :
                label \in {TrimSpace(labels[i])}, command \in {TrimSpace(commands[i])} })

defaultHelperChoices ==
    << [label |-> "Open", command |-> ""],
       [label |-> "Approve", command |-> ""],
       [label |-> "Reject", command |-> ""] >>

parseArgs(args) ==
    Only({ Only({ [ title |-> OrElse(value(args, "--title"), "Codex: Approval Requested"),
                    message |-> OrElse(value(args, "--message"), "approval pending"),
                    identifier |-> OrElse(value(args, "--identifier"), ""),
                    timeoutSeconds |->
                        helperTimeoutSeconds(OrElse(value(args, "--timeout-seconds"), "45")),
                    interactionLockFile |->
                        OrElse(value(args, "--interaction-lock-file"), ""),
                    choices |-> IF parsed = <<>> THEN defaultHelperChoices ELSE parsed ] :
                  parsed \in {pairChoices(labels, commands, 1,
                                          Min(Len(labels), Len(commands)))} }) :
           labels \in {values(args, "--choice-label")},
           commands \in {values(args, "--choice-cmd")} })

\* ------------------------------------------------------------------ helper: state

VARIABLES
    pc,            \* the helper process: NotStarted, Idle, Displaying, Closing, Terminated
    helperArgs,    \* CommandLine.arguments of the helper process, <<>> before it starts
    config,        \* Config, the result of parseArgs
    isClosing,     \* PopupController.isClosing
    timeoutTimer,  \* PopupController.timeoutTimer is scheduled and valid
    panel,         \* PopupController.panel is non-nil (the popup is on screen)
    elapsed,       \* whole seconds since show()
    running,       \* index of the choice whose command runShell waits for, 0 if none
    executed,      \* the commands runShell has started, in order
    outcome,       \* what first closed the popup: None, UserChose, TimedOut, Dismissed
    lockFiles      \* the paths at which a file exists

helperVars ==
    <<pc, helperArgs, config, isClosing, timeoutTimer, panel, elapsed, running, executed,
      outcome, lockFiles>>

VARIABLES
    timeoutEnv,        \* value of CODEX_NOTIFY_APPROVAL_TIMEOUT_SECONDS ("" when unset)
    timeoutArg,        \* the helper's --timeout-seconds argument: <<>> absent, <<text>>
    presenterTimeout,  \* approvalActionTimeoutSeconds(), 0 before it ran
    helperTimeout,     \* Config.timeoutSeconds, 0 before parseArgs ran
    timeoutStage       \* env, presenter, helper-from-presenter, helper-same-text

timeoutVars == <<timeoutEnv, timeoutArg, presenterTimeout, helperTimeout, timeoutStage>>

VARIABLES
    popups,       \* bag of the popup helpers the presenter started that are Displaying
    helperCache,  \* the cached helper: [hashCurrent, binaryInstalled]
    lastHook      \* the latest hook invocation: its inputs, what it did, its error

hookVars == <<popups, helperCache, lastHook>>

helperProcessVars ==
    <<pc, helperArgs, config, isClosing, timeoutTimer, panel, elapsed, running, executed, outcome>>

VARIABLES
    lastAction    \* the latest `action` invocation: its inputs, the processes it ran, its error

actionVars == <<lastAction>>

VARIABLES
    build,        \* the helper cache directory and the ensureApprovalActionHelper runs in it
    install       \* the Codex config file, its backups, the clock, the latest init/uninstall

fileVars == <<build, install>>

vars == <<helperVars, timeoutVars, hookVars, actionVars, fileVars>>

noConfig ==
    [ title |-> "", message |-> "", identifier |-> "", timeoutSeconds |-> 0,
      interactionLockFile |-> "", choices |-> <<>> ]

\* Paths of marker files that may exist when a helper starts.
LockPaths == {"lockA", "lockA ", " "}

\* Commands that never exit once started (the model's stand-in for a shell
\* command that blocks for good).
HangingCommands == {"hang"}

\* clearInteractionLock that forgets to remove the file.
clearInteractionLockKeepsFile(files, path) == files

\* removeItem(atPath:) on the trimmed path; an empty trimmed path does nothing.
clearInteractionLock(files, path) ==
    LET trimmed == TrimSpace(path) IN
    IF trimmed = "" THEN files ELSE files \ {trimmed}

\* ------------------------------------------------------------------ helper: operations

\* Argument vectors in the grammar of the helper's command line.
flattenChoices(pairs) ==
    [ i \in 1..(4 * Len(pairs)) |->
        LET p == pairs[((i - 1) \div 4) + 1]
            k == (i - 1) % 4
        IN CASE k = 0 -> "--choice-label"
             [] k = 1 -> p[1]
             [] k = 2 -> "--choice-cmd"
             [] k = 3 -> p[2] ]

helperArgv(timeoutOpt, lockOpt, pairs) ==
    << "approval_action_notifier", "--title", "Codex: Approval Requested",
       "--message", "run tests?", "--identifier", "codex-notify-approval-native" >>
        \o (IF timeoutOpt = <<>> THEN <<>> ELSE <<"--timeout-seconds", timeoutOpt[1]>>)
        \o (IF lockOpt = <<>> THEN <<>> ELSE <<"--interaction-lock-file", lockOpt[1]>>)
        \o flattenChoices(pairs)

TimeoutArgs == {<<>>, <<"3">>, <<"6">>}
LockArgs == {<<>>, <<"lockA">>, <<"lockA ">>, <<" ">>}
ChoiceArgs ==
    { <<>>,
      << <<"Yes", "cmdA">> >>,
      << <<"Yes", "cmdA">>, <<"No", "cmdB">> >>,
      << <<"Yes", "cmdA">>, <<"Wait", "hang">> >>,
      << <<" ", "cmdA">>, <<"No", "cmdB">> >>,
      << <<"Yes", " ">> >> }

\* top-level code of the helper: parse the arguments, start the application.
helperMain ==
    /\ pc = "NotStarted"
    /\ \E t \in TimeoutArgs, l \in LockArgs, c \in ChoiceArgs :
           /\ helperArgs' = helperArgv(t, l, c)
           /\ config' = parseArgs(helperArgv(t, l, c))
    /\ pc' = "Idle"
    /\ UNCHANGED <<isClosing, timeoutTimer, panel, elapsed, running, executed,
                   outcome, lockFiles>>
    /\ UNCHANGED <<timeoutVars, hookVars, actionVars, fileVars>>

\* show() that puts the popup on screen but never schedules timeoutTimer.
showWithoutTimeoutTimer ==
    /\ pc = "Idle"
    /\ pc' = "Displaying"
    /\ panel' = TRUE
    /\ timeoutTimer' = FALSE
    /\ elapsed' = 0
    /\ UNCHANGED <<helperArgs, config, isClosing, running, executed, outcome, lockFiles>>
    /\ UNCHANGED <<timeoutVars, hookVars, actionVars, fileVars>>

\* applicationDidFinishLaunching -> PopupController.show()
show ==
    /\ pc = "Idle"
    /\ pc' = "Displaying"
    /\ panel' = TRUE
    /\ timeoutTimer' = TRUE
    /\ elapsed' = 0
    /\ UNCHANGED <<helperArgs, config, isClosing, running, executed, outcome, lockFiles>>
    /\ UNCHANGED <<timeoutVars, hookVars, actionVars, fileVars>>

\* One second passes while the timeout timer is scheduled.
tick ==
    /\ timeoutTimer
    /\ elapsed < config.timeoutSeconds
    /\ elapsed' = elapsed + 1
    /\ UNCHANGED <<pc, helperArgs, config, isClosing, timeoutTimer, panel, running, executed,
                   outcome, lockFiles>>
    /\ UNCHANGED <<timeoutVars, hookVars, actionVars, fileVars>>

\* PopupController.closePopup, reached from the handler named by cause.
closePopup(cause) ==
    IF isClosing
    THEN UNCHANGED <<pc, isClosing, timeoutTimer, panel, outcome, lockFiles>>
    ELSE /\ isClosing' = TRUE
         /\ timeoutTimer' = FALSE
         /\ lockFiles' = clearInteractionLock(lockFiles, config.interactionLockFile)
         /\ outcome' = cause
         /\ IF panel
            THEN pc' = "Closing" /\ panel' = panel
            ELSE pc' = "Terminated" /\ panel' = panel

\* The event loop delivers events only while no handler is running.
mainThreadFree == running = 0

\* PopupController.choiceClicked: a click on choice button idx, delivered
\* while the popup is on screen (also during the closing animation).
choiceClicked ==
    /\ pc \in {"Displaying", "Closing"}
    /\ panel
    /\ mainThreadFree
    /\ Len(executed) < MaxExec
    /\ \E idx \in 1..Len(config.choices), started \in BOOLEAN :
         LET command == config.choices[idx].command IN
         IF command # "" /\ started
         THEN \* runShell: process.run() succeeded, waitUntilExit() blocks
              /\ running' = idx
              /\ executed' = Append(executed, command)
              /\ UNCHANGED <<pc, isClosing, timeoutTimer, panel, outcome, lockFiles>>
         ELSE \* empty command, or process.run() threw: runShell returns at once
              /\ closePopup("UserChose")
              /\ UNCHANGED <<running, executed>>
    /\ UNCHANGED <<helperArgs, config, elapsed>>
    /\ UNCHANGED <<timeoutVars, hookVars, actionVars, fileVars>>

\* runShell's waitUntilExit() returns; choiceClicked goes on to closePopup().
runShellExit ==
    /\ running # 0
    /\ config.choices[running].command \notin HangingCommands
    /\ running' = 0
    /\ closePopup("UserChose")
    /\ UNCHANGED <<helperArgs, config, elapsed, executed>>
    /\ UNCHANGED <<timeoutVars, hookVars, actionVars, fileVars>>

\* The close button: target self, action closePopup.
closeClicked ==
    /\ pc \in {"Displaying", "Closing"}
    /\ panel
    /\ mainThreadFree
    /\ closePopup("Dismissed")
    /\ UNCHANGED <<helperArgs, config, elapsed, running, executed>>
    /\ UNCHANGED <<timeoutVars, hookVars, actionVars, fileVars>>

\* timeoutTimer fires after timeoutSeconds, selector closePopup.
timeoutFired ==
    /\ timeoutTimer
    /\ mainThreadFree
    /\ elapsed >= config.timeoutSeconds
    /\ closePopup("TimedOut")
    /\ UNCHANGED <<helperArgs, config, elapsed, running, executed>>
    /\ UNCHANGED <<timeoutVars, hookVars, actionVars, fileVars>>

\* The closing animation's completion handler: orderOut, NSApp.terminate,
\* then AppDelegate.applicationWillTerminate releases the lock once more.
animationCompleted ==
    /\ pc = "Closing"
    /\ mainThreadFree
    /\ panel' = FALSE
    /\ lockFiles' = clearInteractionLock(lockFiles, config.interactionLockFile)
    /\ pc' = "Terminated"
    /\ UNCHANGED <<helperArgs, config, isClosing, timeoutTimer, elapsed, running, executed, outcome>>
    /\ UNCHANGED <<timeoutVars, hookVars, actionVars, fileVars>>

\* No helper process: the helper's variables in the specifications that are
\* about something else.
HelperIdle ==
    /\ pc = "NotStarted"
    /\ helperArgs = <<>>
    /\ config = noConfig
    /\ isClosing = FALSE
    /\ timeoutTimer = FALSE
    /\ panel = FALSE
    /\ elapsed = 0
    /\ running = 0
    /\ executed = <<>>
    /\ outcome = "None"
    /\ lockFiles = {}

TimeoutIdle ==
    /\ timeoutEnv = ""
    /\ timeoutArg = <<>>
    /\ presenterTimeout = 0
    /\ helperTimeout = 0
    /\ timeoutStage = "env"

noHook ==
    [ ran |-> FALSE, delivery |-> [valid |-> TRUE, payload |-> <<>>], env |-> <<>>,
      world |-> <<>>, openBefore |-> {}, err |-> "", exit |-> 0, attempts |-> <<>> ]

noAction ==
    [ ran |-> FALSE, args |-> <<>>, env |-> <<>>, world |-> <<>>, err |-> "", exit |-> 0,
      spawned |-> <<>> ]

ActionIdle == lastAction = noAction

noBuild ==
    [ hash |-> FALSE, binary |-> 0, tmp |-> 0, swiftc |-> FALSE, content |-> <<>>,
      at |-> <<>> ]

noInstall ==
    [ exists |-> FALSE, text |-> "", backups |-> <<>>, clock |-> 0, runs |-> <<>> ]

FilesIdle ==
    /\ build = noBuild
    /\ install = noInstall

HookIdle ==
    /\ popups = EmptyBag
    /\ helperCache = [hashCurrent |-> FALSE, binaryInstalled |-> FALSE]
    /\ lastHook = noHook

HelperInit ==
    /\ TimeoutIdle
    /\ ActionIdle
    /\ FilesIdle
    /\ HookIdle
    /\ pc = "NotStarted"
    /\ helperArgs = <<>>
    /\ config = noConfig
    /\ isClosing = FALSE
    /\ timeoutTimer = FALSE
    /\ panel = FALSE
    /\ elapsed = 0
    /\ running = 0
    /\ executed = <<>>
    /\ outcome = "None"
    /\ lockFiles \in SUBSET LockPaths

HelperNext ==
    \/ helperMain
    \/ show
    \/ tick
    \/ choiceClicked
    \/ runShellExit
    \/ closeClicked
    \/ timeoutFired
    \/ animationCompleted

\* One run of the popup helper.
SpecHelper == HelperInit /\ [][HelperNext]_vars

\* The run loop keeps delivering timer and completion callbacks, time passes,
\* and a started command that is able to exit does exit.  Nothing forces the
\* user to click.
FairSpecHelper ==
    /\ SpecHelper
    /\ WF_vars(show)
    /\ WF_vars(tick)
    /\ WF_vars(timeoutFired)
    /\ WF_vars(runShellExit)
    /\ WF_vars(animationCompleted)

\* ------------------------------------------------------------------ the approval timeout

\* approvalActionTimeoutSeconds without the upper clamp.
approvalActionTimeoutSecondsNoUpperClamp(env) ==
    Only({ IF raw = "" THEN DefaultTimeoutSeconds
           ELSE Only({ IF parsed = <<>> THEN DefaultTimeoutSeconds
                       ELSE IF parsed[1] < MinTimeoutSeconds THEN MinTimeoutSeconds
                       ELSE parsed[1] : parsed \in {ParseInt(raw)} }) :
           raw \in {TrimSpace(env)} })

\* approvalActionTimeoutSeconds() with CODEX_NOTIFY_APPROVAL_TIMEOUT_SECONDS = env.
approvalActionTimeoutSeconds(env) ==
    Only({ IF raw = "" THEN DefaultTimeoutSeconds
           ELSE Only({ IF parsed = <<>> THEN DefaultTimeoutSeconds
                       ELSE IF parsed[1] < MinTimeoutSeconds THEN MinTimeoutSeconds
                       ELSE IF parsed[1] > MaxTimeoutSeconds THEN MaxTimeoutSeconds
                       ELSE parsed[1] : parsed \in {ParseInt(raw)} }) :
           raw \in {TrimSpace(env)} })

\* Longest configured timeout text the model draws.
MaxTimeoutTextLen == 3

TimeoutTextChars == {"0", "1", "3", "5", "9", " ", "-", "x"}

RECURSIVE TextsUpTo(_)
TextsUpTo(n) ==
    IF n = 0 THEN {""}
    ELSE LET shorter == TextsUpTo(n - 1) IN
         shorter \cup {s \o c : s \in shorter, c \in TimeoutTextChars}

TimeoutTexts == TextsUpTo(MaxTimeoutTextLen)

\* The presenter reads the environment value.
presenterReadsTimeout ==
    /\ timeoutStage = "env"
    /\ presenterTimeout' = approvalActionTimeoutSeconds(timeoutEnv)
    /\ timeoutStage' = "presenter"
    /\ UNCHANGED <<timeoutEnv, timeoutArg, helperTimeout>>
    /\ UNCHANGED <<helperVars, hookVars, actionVars, fileVars>>

\* The presenter launches the helper with --timeout-seconds Itoa(timeout).
helperParsesPresenterTimeout ==
    /\ timeoutStage = "presenter"
    /\ timeoutArg' = <<Itoa(presenterTimeout)>>
    /\ helperTimeout' =
           parseArgs(<<"approval_action_notifier", "--timeout-seconds",
                       Itoa(presenterTimeout)>>).timeoutSeconds
    /\ timeoutStage' = "helper-from-presenter"
    /\ UNCHANGED <<timeoutEnv, presenterTimeout>>
    /\ UNCHANGED <<helperVars, hookVars, actionVars, fileVars>>

\* The helper is started with the configured text itself as --timeout-seconds
\* (no flag at all when nothing is configured).
helperParsesSameText ==
    /\ timeoutStage = "presenter"
    /\ timeoutArg' = IF timeoutEnv = "" THEN <<>> ELSE <<timeoutEnv>>
    /\ helperTimeout' =
           parseArgs(IF timeoutEnv = "" THEN <<"approval_action_notifier">>
                     ELSE <<"approval_action_notifier", "--timeout-seconds",
                            timeoutEnv>>).timeoutSeconds
    /\ timeoutStage' = "helper-same-text"
    /\ UNCHANGED <<timeoutEnv, presenterTimeout>>
    /\ UNCHANGED <<helperVars, hookVars, actionVars, fileVars>>

TimeoutInit ==
    /\ HelperIdle
    /\ HookIdle
    /\ ActionIdle
    /\ FilesIdle
    /\ timeoutEnv \in TimeoutTexts
    /\ timeoutArg = <<>>
    /\ presenterTimeout = 0
    /\ helperTimeout = 0
    /\ timeoutStage = "env"

TimeoutNext ==
    \/ presenterReadsTimeout
    \/ helperParsesPresenterTimeout
    \/ helperParsesSameText

\* The timeout rule of the presenter and of the helper on every short text.
SpecTimeout == TimeoutInit /\ [][TimeoutNext]_vars

\* ------------------------------------------------------------------ main.go: settings

\* The environment of one codex-notify process: the raw values of its
\* CODEX_NOTIFY_* variables ("" when unset).
\*   notificationUI        CODEX_NOTIFY_NOTIFICATION_UI
\*   enableApprovalActions CODEX_NOTIFY_ENABLE_APPROVAL_ACTIONS
\*   approvalUI            CODEX_NOTIFY_APPROVAL_UI
\*   enablePopupApproval   CODEX_NOTIFY_ENABLE_POPUP_APPROVAL_ACTIONS
\*   enableNativeApproval  CODEX_NOTIFY_ENABLE_NATIVE_APPROVAL_ACTIONS
\*   approvalTimeout       CODEX_NOTIFY_APPROVAL_TIMEOUT_SECONDS

isOnValue(v) == v \in {"1", "true", "yes", "on"}

approvalActionsEnabled(env) ==
    Only({ IF v = "" THEN TRUE ELSE isOnValue(v) :
           v \in {TrimSpace(ToLower(env.enableApprovalActions))} })

approvalUIStyle(env) ==
    IF TrimSpace(ToLower(env.approvalUI)) = "multi" THEN "multi" ELSE "popup"

notificationUIStyle(env) ==
    IF TrimSpace(ToLower(env.notificationUI)) = "system" THEN "system" ELSE "popup"

\* ------------------------------------------------------------------ main.go: the payload

\* A decoded JSON object is a function from its keys to tagged values:
\* [t |-> "string", v |-> text], [t |-> "list", v |-> <<text, ...>>] (the
\* items already printed with %v), [t |-> "null"].
JStr(text) == [t |-> "string", v |-> text]
JList(items) == [t |-> "list", v |-> items]

getString(payload, key) ==
    IF key \in DOMAIN payload /\ payload[key].t = "string"
    THEN TrimSpace(payload[key].v)
    ELSE ""

RECURSIVE getStringAny(_, _)
getStringAny(payload, keys) ==
    IF Len(keys) = 0 THEN ""
    ELSE Only({ IF s # "" THEN s ELSE getStringAny(payload, Tail(keys)) :
                s \in {getString(payload, Head(keys))} })

RECURSIVE trimmedNonEmpty(_)
trimmedNonEmpty(items) ==
    IF Len(items) = 0 THEN <<>>
    ELSE Only({ IF item # "" THEN <<item>> ELSE <<>> : item \in {TrimSpace(Head(items))} })
             \o trimmedNonEmpty(Tail(items))

RECURSIVE getStringSliceAny(_, _)
getStringSliceAny(payload, keys) ==
    IF Len(keys) = 0 THEN <<>>
    ELSE Only({ IF Len(out) > 0 THEN out ELSE getStringSliceAny(payload, Tail(keys)) :
                out \in {IF Head(keys) \in DOMAIN payload /\ payload[Head(keys)].t = "list"
                         THEN trimmedNonEmpty(payload[Head(keys)].v)
                         ELSE <<>>} })

payloadEventName(payload) == getStringAny(payload, <<"event", "type">>)

payloadThreadID(payload) ==
    getStringAny(payload, <<"thread-id", "thread_id", "threadId">>)

PreviewLimit == 180
PreviewKept == 177

payloadPreviewMessage(payload) ==
    Only({ IF Len(collapsed) > PreviewLimit
           THEN SubSeq(collapsed, 1, PreviewKept) \o "..."
           ELSE collapsed :
           collapsed \in
               {CollapseSpaces(Only({
                    IF direct # "" THEN direct
                    ELSE JoinWith(getStringSliceAny(payload, <<"input-messages",
                                                              "input_messages">>), " ") :
                    direct \in {getStringAny(payload, <<"last-assistant-message",
                                                        "last_assistant_message",
                                                        "message", "text">>)} }))} })

\* renderPayloadMessage: <<title, message>>.  The Japanese default texts of
\* the source are written here in ASCII.
renderPayloadMessage(payload) ==
    Only({ CASE event = "agent-turn-complete" ->
                  <<"Codex: Turn Complete",
                    IF preview = "" THEN "waiting for input" ELSE preview>>
             [] event = "approval-requested" ->
                  <<"Codex: Approval Requested",
                    IF preview = "" THEN "approval pending" ELSE preview>>
             [] event = "agent-error" ->
                  <<"Codex: Error",
                    IF preview = "" THEN "error event received" ELSE preview>>
             [] OTHER ->
                  IF event = ""
                  THEN <<"Codex", IF preview = "" THEN "event received" ELSE preview>>
                  ELSE IF preview # "" THEN <<"Codex", event \o ": " \o preview>>
                  ELSE <<"Codex", "event: " \o event>> :
           event \in {payloadEventName(payload)},
           preview \in {payloadPreviewMessage(payload)} })

IDChars == LowerLetters \o UpperLetters \o DigitChars \o "._-"

RECURSIVE sanitizeChars(_)
sanitizeChars(v) ==
    IF Len(v) = 0 THEN v
    ELSE (IF Contains(IDChars, Ch(v, 1)) THEN Ch(v, 1) ELSE "-")
             \o sanitizeChars(SubSeq(v, 2, Len(v)))

sanitizeID(v) == IF v = "" THEN "" ELSE TrimDashes(sanitizeChars(v))

notificationGroup(kind, threadID) ==
    Only({ IF threadID = "" THEN "codex-notify-" \o k
           ELSE "codex-notify-" \o k \o "-" \o sanitizeID(threadID) :
           k \in {Only({IF id = "" THEN "event" ELSE id : id \in {sanitizeID(kind)}})} })

\* ------------------------------------------------------------------ main.go: commands and choices

\* os.Executable() of the running codex-notify.
executablePath == "/opt/bin/codex-notify"

shellQuote(v) ==
    IF v = "" THEN "''" ELSE "'" \o ReplaceAll(v, "'", "'\"'\"'") \o "'"

buildActionCommand(action, threadID) ==
    JoinWith(<<shellQuote(executablePath), "action", shellQuote(action)>>
                 \o (IF threadID # "" THEN <<"--thread-id", shellQuote(threadID)>>
                     ELSE <<>>),
             " ")

\* buildSubmitActionCommand that drops the text.
buildSubmitActionCommandWithoutText(text, threadID) ==
    JoinWith(<<shellQuote(executablePath), "action", "submit">>
                 \o (IF threadID # "" THEN <<"--thread-id", shellQuote(threadID)>>
                     ELSE <<>>),
             " ")

buildSubmitActionCommand(text, threadID) ==
    JoinWith(<<shellQuote(executablePath), "action", "submit", "--text",
               shellQuote(text)>>
                 \o (IF threadID # "" THEN <<"--thread-id", shellQuote(threadID)>>
                     ELSE <<>>),
             " ")

\* defaultApprovalChoices without the Open choice.
defaultApprovalChoicesWithoutOpen(threadID) ==
    << [Label |-> "Approve", Command |-> buildActionCommand("approve", threadID)],
       [Label |-> "Reject", Command |-> buildActionCommand("reject", threadID)] >>

defaultApprovalChoices(threadID) ==
    << [Label |-> "Open", Command |-> buildActionCommand("open", threadID)],
       [Label |-> "Approve", Command |-> buildActionCommand("approve", threadID)],
       [Label |-> "Reject", Command |-> buildActionCommand("reject", threadID)] >>

payloadApprovalOptions(payload) ==
    getStringSliceAny(payload, <<"approval-options", "approval_options", "options",
                                 "choices", "actions">>)

\* actionForApprovalOption without the positional fallback.
actionForApprovalOptionNoPositional(label, idx, total) ==
    Only({ IF norm \in {"open", "show", "focus"} THEN "open"
           ELSE IF norm \in {"approve", "approved", "allow", "yes", "y", "ok"} THEN "approve"
           ELSE IF norm \in {"reject", "denied", "deny", "no", "n", "cancel"} THEN "reject"
           ELSE "" :
           norm \in {ReplaceAll(ReplaceAll(ReplaceAll(TrimSpace(ToLower(label)),
                                                      " ", ""), "-", ""), "_", "")} })

\* actionForApprovalOption comparing the label as written.
actionForApprovalOptionAsWritten(label, idx, total) ==
    IF label \in {"open", "show", "focus"} THEN "open"
    ELSE IF label \in {"approve", "approved", "allow", "yes", "y", "ok"} THEN "approve"
    ELSE IF label \in {"reject", "denied", "deny", "no", "n", "cancel"} THEN "reject"
    ELSE IF total = 2 THEN (IF idx = 0 THEN "approve" ELSE "reject")
    ELSE ""

\* idx counts from 0, as in the source.
actionForApprovalOption(label, idx, total) ==
    Only({ IF norm \in {"open", "show", "focus"} THEN "open"
           ELSE IF norm \in {"approve", "approved", "allow", "yes", "y", "ok"} THEN "approve"
           ELSE IF norm \in {"reject", "denied", "deny", "no", "n", "cancel"} THEN "reject"
           ELSE IF total = 2 THEN (IF idx = 0 THEN "approve" ELSE "reject")
           ELSE "" :
           norm \in {ReplaceAll(ReplaceAll(ReplaceAll(TrimSpace(ToLower(label)),
                                                      " ", ""), "-", ""), "_", "")} })

RECURSIVE choicesFromOptions(_, _, _)
choicesFromOptions(options, i, threadID) ==
    IF i > Len(options) THEN <<>>
    ELSE Only({ IF label = "" THEN <<>>
                ELSE Only({ << [ Label |-> label,
                                 Command |-> IF action # ""
                                             THEN buildActionCommand(action, threadID)
                                             ELSE buildSubmitActionCommand(label, threadID) ] >> :
                            action \in {actionForApprovalOption(label, i - 1, Len(options))} }) :
                label \in {TrimSpace(options[i])} })
             \o choicesFromOptions(options, i + 1, threadID)

approvalChoicesFromPayload(payload, threadID) ==
    choicesFromOptions(payloadApprovalOptions(payload), 1, threadID)

inferPopupLabelFromCommand(command) ==
    Only({ IF cmd = "" THEN ""
           ELSE IF ContainsText(cmd, " action approve") THEN "Approve"
           ELSE IF ContainsText(cmd, " action reject") THEN "Reject"
           ELSE IF ContainsText(cmd, " action choose") THEN "Choose"
           ELSE IF ContainsText(cmd, " action submit") THEN "Submit"
           ELSE "Open" :
           cmd \in {TrimSpace(ToLower(command))} })

popupChoicesForRequest(req) ==
    Only({ Only({ << [ Label |-> IF inferred # "" THEN inferred
                                 ELSE IF command = "" THEN "Close" ELSE "Open",
                       Command |-> command ] >> :
                  inferred \in {IF given = "" THEN inferPopupLabelFromCommand(command)
                                ELSE given} }) :
           command \in {TrimSpace(req.ExecuteOnClick)},
           given \in {TrimSpace(req.PopupPrimaryLabel)} })

shouldUseNativeApprovalNotification(payload, env) ==
    IF notificationUIStyle(env) = "system" THEN FALSE
    ELSE IF payloadEventName(payload) # "approval-requested" THEN FALSE
    ELSE IF ~approvalActionsEnabled(env) THEN FALSE
    ELSE IF approvalUIStyle(env) = "multi" THEN FALSE
    ELSE Only({ IF v = "" THEN TRUE ELSE isOnValue(v) :
                v \in {Only({ IF popupFlag = ""
                              THEN TrimSpace(ToLower(env.enableNativeApproval))
                              ELSE popupFlag :
                              popupFlag \in {TrimSpace(ToLower(env.enablePopupApproval))} })} })

emptyRequest ==
    [ Title |-> "", Message |-> "", Group |-> "", ExecuteOnClick |-> "",
      ActivateBundleID |-> "", PopupPrimaryLabel |-> "" ]

\* buildHookNotifications that does not look at the approval-actions switch.
buildHookNotificationsIgnoringSwitch(payload, env) ==
    Only({ IF eventName = "approval-requested"
           THEN << [ emptyRequest EXCEPT
                       !.Title = rendered[1],
                       !.Message = rendered[2],
                       !.Group = notificationGroup(eventName, threadID),
                       !.ExecuteOnClick = buildActionCommand("choose", threadID) ] >>
           ELSE << [ emptyRequest EXCEPT
                       !.Title = rendered[1],
                       !.Message = rendered[2],
                       !.Group = notificationGroup(eventName, threadID),
                       !.ExecuteOnClick = buildActionCommand("open", threadID) ] >> :
           eventName \in {payloadEventName(payload)},
           threadID \in {payloadThreadID(payload)},
           rendered \in {renderPayloadMessage(payload)} })

buildHookNotifications(payload, env) ==
    Only({ Only({ IF eventName = "approval-requested" /\ approvalActionsEnabled(env)
                  THEN IF approvalUIStyle(env) = "multi"
                       THEN << base,
                               [ emptyRequest EXCEPT
                                   !.Title = "Codex: Approve",
                                   !.Message = "click to send the approve input",
                                   !.Group = notificationGroup("approve", threadID),
                                   !.ExecuteOnClick = buildActionCommand("approve", threadID),
                                   !.PopupPrimaryLabel = "Approve" ],
                               [ emptyRequest EXCEPT
                                   !.Title = "Codex: Reject",
                                   !.Message = "click to send the reject input",
                                   !.Group = notificationGroup("reject", threadID),
                                   !.ExecuteOnClick = buildActionCommand("reject", threadID),
                                   !.PopupPrimaryLabel = "Reject" ] >>
                       ELSE << [base EXCEPT
                                  !.ExecuteOnClick = buildActionCommand("choose", threadID)] >>
                  ELSE << base >> :
                  base \in {[ emptyRequest EXCEPT
                                !.Title = rendered[1],
                                !.Message = rendered[2],
                                !.Group = notificationGroup(eventName, threadID),
                                !.ExecuteOnClick = buildActionCommand("open", threadID) ]} }) :
           eventName \in {payloadEventName(payload)},
           threadID \in {payloadThreadID(payload)},
           rendered \in {renderPayloadMessage(payload)} })

\* ------------------------------------------------------------------ main.go: dispatch

\* What one codex-notify process finds outside itself while it runs:
\*   helperDir        os.UserCacheDir and os.MkdirAll succeed
\*   build            the outcome of building the helper when the cache is
\*                    not current: "swiftc-missing", "compile-fails",
\*                    "hash-write-fails" (binary installed, hash not written)
\*                    or "ok"
\*   helperStart      cmd.Start() of the helper binary succeeds
\*   terminalNotifier "missing" (not on PATH), "fails" (runs, exits non-zero)
\*                    or "ok"
\*   osascript        likewise
\* The helper cache is [hashCurrent, binaryInstalled].

GOOS == "darwin"

noAttempts == <<>>

attempt(request, surface, result, argv) ==
    [request |-> request, surface |-> surface, result |-> result, argv |-> argv]

\* ensureApprovalActionHelper: [err, cache].
ensureApprovalActionHelper(cache, world) ==
    IF ~world.helperDir THEN [err |-> "create helper dir", cache |-> cache]
    ELSE IF cache.hashCurrent /\ cache.binaryInstalled THEN [err |-> "", cache |-> cache]
    ELSE CASE world.build = "swiftc-missing" ->
                [err |-> "swiftc not found", cache |-> cache]
           [] world.build = "compile-fails" ->
                [err |-> "compile helper failed", cache |-> cache]
           [] world.build = "hash-write-fails" ->
                [err |-> "write helper hash",
                 cache |-> [cache EXCEPT !.binaryInstalled = TRUE]]
           [] OTHER ->
                [err |-> "", cache |-> [hashCurrent |-> TRUE, binaryInstalled |-> TRUE]]

RECURSIVE choiceArgs(_)
choiceArgs(choices) ==
    IF Len(choices) = 0 THEN <<>>
    ELSE <<"--choice-label", Head(choices).Label, "--choice-cmd", Head(choices).Command>>
             \o choiceArgs(Tail(choices))

popupHelperArgs(title, message, identifier, env, choices) ==
    << "--title", title, "--message", message, "--identifier", identifier,
       "--timeout-seconds", Itoa(approvalActionTimeoutSeconds(env.approvalTimeout)) >>
        \o choiceArgs(choices)

\* Launch the helper with args: [err, cache, attempts].
startHelper(request, argv, startError, cache, world) ==
    Only({ IF helper.err # ""
           THEN [err |-> helper.err, cache |-> helper.cache,
                 attempts |-> <<attempt(request, "popup-helper", "prepare-failed", args)>>]
           ELSE IF ~world.helperStart
           THEN [err |-> startError, cache |-> helper.cache,
                 attempts |-> <<attempt(request, "popup-helper", "start-failed", args)>>]
           ELSE [err |-> "", cache |-> helper.cache,
                 attempts |-> <<attempt(request, "popup-helper", "started", args)>>] :
           helper \in {ensureApprovalActionHelper(cache, world)},
           args \in {argv} })

sendNativeApprovalNotification(payload, env, cache, world) ==
    Only({ startHelper(0,
                       popupHelperArgs(rendered[1], rendered[2],
                                       notificationGroup("approval-native", threadID), env,
                                       IF Len(fromPayload) = 0
                                       THEN defaultApprovalChoices(threadID)
                                       ELSE fromPayload),
                       "start native approval notifier", cache, world) :
           rendered \in {renderPayloadMessage(payload)},
           fromPayload \in {approvalChoicesFromPayload(payload, payloadThreadID(payload))},
           threadID \in {payloadThreadID(payload)} })

sendNativePopupNotification(request, req, title, message, group, env, cache, world) ==
    startHelper(request,
                popupHelperArgs(title, message, group, env, popupChoicesForRequest(req)),
                "start native popup notifier", cache, world)

escapeAppleScript(s) == ReplaceAll(ReplaceAll(s, "\\", "\\\\"), "\"", "\\\"")

terminalNotifierArgs(req, title, message, group) ==
    << "-title", title, "-message", message, "-group", group >>
        \o (IF req.ExecuteOnClick # "" THEN <<"-execute", req.ExecuteOnClick>> ELSE <<>>)
        \o (IF req.ActivateBundleID # "" THEN <<"-activate", req.ActivateBundleID>>
            ELSE <<>>)

osascriptArgs(title, message) ==
    << "-e", "display notification \"" \o escapeAppleScript(message)
                 \o "\" with title \"" \o escapeAppleScript(title) \o "\"" >>

noNotifierError == "no notifier available (terminal-notifier and osascript not found)"

\* sendNotification for the request-th request of a hook: [err, cache, attempts].
sendNotification(request, req, env, cache, world) ==
    IF GOOS # "darwin"
    THEN [err |-> "unsupported OS", cache |-> cache, attempts |-> noAttempts]
    ELSE Only({
        Only({
            IF popupTried /\ popup.err = "" THEN popup
            ELSE Only({
                IF world.terminalNotifier = "ok"
                THEN [err |-> "", cache |-> popup.cache, attempts |-> afterNotifier]
                ELSE IF world.osascript = "missing"
                THEN [err |-> noNotifierError, cache |-> popup.cache,
                      attempts |-> afterNotifier]
                ELSE [err |-> IF world.osascript = "ok" THEN "" ELSE "osascript failed",
                      cache |-> popup.cache,
                      attempts |-> Append(afterNotifier,
                                          attempt(request, "osascript",
                                                  IF world.osascript = "ok" THEN "ok"
                                                  ELSE "failed",
                                                  osascriptArgs(title, message)))] :
                afterNotifier \in
                    {IF world.terminalNotifier # "missing"
                     THEN Append(popup.attempts,
                                 attempt(request, "terminal-notifier",
                                         IF world.terminalNotifier = "ok" THEN "ok"
                                         ELSE "failed",
                                         terminalNotifierArgs(req, title, message, group)))
                     ELSE popup.attempts} }) :
            popup \in {IF popupTried
                       THEN sendNativePopupNotification(request, req, title, message,
                                                        group, env, cache, world)
                       ELSE [err |-> "", cache |-> cache, attempts |-> noAttempts]} }) :
        title \in {IF req.Title = "" THEN "Codex" ELSE req.Title},
        message \in {IF req.Message = "" THEN "event received" ELSE req.Message},
        group \in {IF req.Group = "" THEN "codex-notify" ELSE req.Group},
        popupTried \in {notificationUIStyle(env) = "popup"} })

\* The loop of runHook over requests[i..], after `done` attempts.
RECURSIVE sendAll(_, _, _, _, _, _)
sendAll(requests, i, env, cache, world, done) ==
    IF i > Len(requests) THEN [err |-> "", cache |-> cache, attempts |-> done]
    ELSE Only({ IF sent.err # ""
                THEN [err |-> sent.err, cache |-> sent.cache,
                      attempts |-> done \o sent.attempts]
                ELSE sendAll(requests, i + 1, env, sent.cache, world,
                             done \o sent.attempts) :
                sent \in {sendNotification(i, requests[i], env, cache, world)} })

\* runHook that sends the notifications also after the approval popup started.
runHookNotifyingAfterPopup(delivery, env, cache, world) ==
    IF ~delivery.valid
    THEN [err |-> "parse payload json", cache |-> cache, attempts |-> noAttempts]
    ELSE Only({ sendAll(buildHookNotifications(delivery.payload, env), 1, env,
                        native.cache, world, native.attempts) :
                native \in {IF shouldUseNativeApprovalNotification(delivery.payload, env)
                            THEN sendNativeApprovalNotification(delivery.payload, env,
                                                                cache, world)
                            ELSE [err |-> "", cache |-> cache, attempts |-> noAttempts]} })

\* runHook swallowing nothing: the error of the approval popup is returned.
runHookReturningHelperError(delivery, env, cache, world) ==
    IF ~delivery.valid
    THEN [err |-> "parse payload json", cache |-> cache, attempts |-> noAttempts]
    ELSE IF shouldUseNativeApprovalNotification(delivery.payload, env)
    THEN sendNativeApprovalNotification(delivery.payload, env, cache, world)
    ELSE Only({ sendAll(requests, 1, env, cache, world, noAttempts) :
                requests \in {buildHookNotifications(delivery.payload, env)} })

\* runHook on one delivery [valid, payload]: valid is whether the raw text is
\* empty or decodes as a JSON object, payload the decoded object (empty for
\* empty text).  Result [err, cache, attempts].
runHook(delivery, env, cache, world) ==
    IF ~delivery.valid
    THEN [err |-> "parse payload json", cache |-> cache, attempts |-> noAttempts]
    ELSE Only({
        Only({
            IF useNative /\ native.err = "" THEN native
            ELSE Only({ sendAll(requests, 1, env, native.cache, world, native.attempts) :
                        requests \in {buildHookNotifications(delivery.payload, env)} }) :
            native \in {IF useNative
                        THEN sendNativeApprovalNotification(delivery.payload, env,
                                                            cache, world)
                        ELSE [err |-> "", cache |-> cache, attempts |-> noAttempts]} }) :
        useNative \in {shouldUseNativeApprovalNotification(delivery.payload, env)} })

\* main() exiting 0 whatever the subcommand returned.
exitStatusAlwaysZero(err) == 0

\* main(): the exit status for the error a subcommand returned.
exitStatus(err) == IF err # "" THEN 1 ELSE 0

\* ------------------------------------------------------------------ the presenter's hook invocations

MaxPopups == 3

defaultEnv ==
    [ notificationUI |-> "", enableApprovalActions |-> "", approvalUI |-> "",
      enablePopupApproval |-> "", enableNativeApproval |-> "", approvalTimeout |-> "" ]

HookEnvs ==
    { defaultEnv,
      [defaultEnv EXCEPT !.notificationUI = " System"],
      [defaultEnv EXCEPT !.approvalUI = "multi"],
      [defaultEnv EXCEPT !.enableApprovalActions = "0"],
      [defaultEnv EXCEPT !.enablePopupApproval = "off"],
      [defaultEnv EXCEPT !.approvalTimeout = " 400 "] }

approvalDelivery ==
    [ valid |-> TRUE,
      payload |-> ("event" :> JStr("approval-requested") @@ "thread-id" :> JStr("t1")
                      @@ "message" :> JStr("run tests?")) ]

turnCompleteDelivery ==
    [ valid |-> TRUE,
      payload |-> ("event" :> JStr("agent-turn-complete") @@ "thread_id" :> JStr("t1")
                      @@ "last-assistant-message" :> JStr("Done:  it's \"ok\"")) ]

HookDeliveries ==
    { approvalDelivery,
      turnCompleteDelivery,
      [ valid |-> TRUE,
        payload |-> ("type" :> JStr("approval-requested")
                        @@ "options" :> JList(<<"Approve", "Edit it", "Reject">>)) ],
      [ valid |-> TRUE, payload |-> <<>> ],
      [ valid |-> FALSE, payload |-> <<>> ] }

Notifiers == {"missing", "fails", "ok"}

HookWorlds ==
    [ helperDir : {TRUE}, helperStart : BOOLEAN,
      build : {"swiftc-missing", "compile-fails", "hash-write-fails", "ok"},
      terminalNotifier : Notifiers, osascript : Notifiers ]
      \cup [ helperDir : {FALSE}, helperStart : {TRUE}, build : {"ok"},
             terminalNotifier : Notifiers, osascript : Notifiers ]

HelperCaches == [hashCurrent : BOOLEAN, binaryInstalled : BOOLEAN]

\* The helper processes a hook started, as the helper itself reads its
\* arguments: one [identifier, interactionLockFile] per started helper.
RECURSIVE launchedPopups(_)
launchedPopups(attempts) ==
    IF Len(attempts) = 0 THEN EmptyBag
    ELSE (IF Head(attempts).surface = "popup-helper" /\ Head(attempts).result = "started"
          THEN Only({ SetToBag({[ identifier |-> cfg.identifier,
                                  interactionLockFile |-> cfg.interactionLockFile ]}) :
                      cfg \in {parseArgs(Head(attempts).argv)} })
          ELSE EmptyBag) (+) launchedPopups(Tail(attempts))

\* One `codex-notify hook` process from start to exit.  It creates no file:
\* lockFiles is as it was.
hookDelivered(delivery, env, world) ==
    \E result \in {runHook(delivery, env, helperCache, world)} :
        \E launched \in {launchedPopups(result.attempts)} :
            /\ BagCardinality(popups) + BagCardinality(launched) <= MaxPopups
            /\ popups' = popups (+) launched
            /\ helperCache' = result.cache
            /\ lastHook' = [ ran |-> TRUE, delivery |-> delivery, env |-> env,
                             world |-> world,
                             openBefore |-> {p.identifier : p \in BagToSet(popups)},
                             err |-> result.err, exit |-> exitStatus(result.err),
                             attempts |-> result.attempts ]
            /\ UNCHANGED <<helperVars, timeoutVars, actionVars, fileVars>>

\* A Displaying popup closes (choice, timeout or dismissal) and its process
\* ends; closePopup releases the lock it was given.
popupCloses ==
    \E p \in BagToSet(popups) :
        /\ popups' = popups (-) SetToBag({p})
        /\ lockFiles' = clearInteractionLock(lockFiles, p.interactionLockFile)
        /\ UNCHANGED <<helperProcessVars, timeoutVars, helperCache, lastHook, actionVars, fileVars>>

\* The first hook invocation on a machine, on every delivery, environment
\* and surrounding.
firstHook ==
    /\ ~lastHook.ran
    /\ \E delivery \in HookDeliveries, env \in HookEnvs, world \in HookWorlds :
           hookDelivered(delivery, env, world)

PresentInit ==
    /\ HelperIdle
    /\ TimeoutIdle
    /\ ActionIdle
    /\ FilesIdle
    /\ popups = EmptyBag
    /\ helperCache \in HelperCaches
    /\ lastHook = noHook

PresentNext == firstHook

SpecPresent == PresentInit /\ [][PresentNext]_vars

\* Hook invocations following each other while popups are open, on a
\* machine where the helper starts.
RepeatedDeliveries == {approvalDelivery, turnCompleteDelivery}

RepeatedEnvs == {defaultEnv, [defaultEnv EXCEPT !.approvalUI = "multi"]}

RepeatedWorlds ==
    [ helperDir : {TRUE}, helperStart : {TRUE}, build : {"ok"},
      terminalNotifier : {"ok"}, osascript : {"ok"} ]

hookInvoked ==
    \E delivery \in RepeatedDeliveries, env \in RepeatedEnvs, world \in RepeatedWorlds :
        hookDelivered(delivery, env, world)

HookInit ==
    /\ HelperIdle
    /\ TimeoutIdle
    /\ ActionIdle
    /\ FilesIdle
    /\ popups = EmptyBag
    /\ helperCache \in HelperCaches
    /\ lastHook = noHook

HookNext ==
    \/ hookInvoked
    \/ popupCloses

SpecHook == HookInit /\ [][HookNext]_vars

\* ------------------------------------------------------------------ approval hooks with option lists

MaxOptions == 3

OptionLabels == {"Yes", "no", "Foo", "Edit it", " ", "O-K", "Yes!", " Show "}

RECURSIVE ListsUpTo(_, _)
ListsUpTo(S, n) ==
    IF n = 0 THEN {<<>>}
    ELSE ListsUpTo(S, n - 1)
             \cup {Append(l, x) : l \in {m \in ListsUpTo(S, n - 1) : Len(m) = n - 1}, x \in S}

OptionLists == ListsUpTo(OptionLabels, MaxOptions)

OptionThreads == {"", "t1"}

\* An approval-requested payload: thread "" is no thread-id field, withField
\* is whether the "options" field is there.
optionDelivery(options, thread, withField) ==
    [ valid |-> TRUE,
      payload |-> "event" :> JStr("approval-requested")
                      @@ (IF thread = "" THEN <<>> ELSE "thread-id" :> JStr(thread))
                      @@ (IF withField THEN "options" :> JList(options) ELSE <<>>) ]

OptionDeliveries ==
    {optionDelivery(options, thread, TRUE) : options \in OptionLists, thread \in OptionThreads}
        \cup {optionDelivery(<<>>, thread, FALSE) : thread \in OptionThreads}

helperWorks ==
    [ helperDir |-> TRUE, helperStart |-> TRUE, build |-> "ok",
      terminalNotifier |-> "ok", osascript |-> "ok" ]

\* The first hook invocation is an approval request with an option list, in
\* the default environment, on a machine where the helper starts.
optionHook ==
    /\ ~lastHook.ran
    /\ \E delivery \in OptionDeliveries : hookDelivered(delivery, defaultEnv, helperWorks)

ChoicesInit ==
    /\ HelperIdle
    /\ TimeoutIdle
    /\ ActionIdle
    /\ FilesIdle
    /\ popups = EmptyBag
    /\ helperCache = [hashCurrent |-> TRUE, binaryInstalled |-> TRUE]
    /\ lastHook = noHook

SpecChoices == ChoicesInit /\ [][optionHook]_vars

\* ------------------------------------------------------------------ hooks with long preview texts

\* A Go string is a sequence of bytes and len() counts bytes.  The strings of
\* this module hold one byte per position; since a literal can only be
\* written in ASCII, "{" stands for the lead byte and "}" for a continuation
\* byte of a UTF-8 encoded character: WideChar is one character of three
\* bytes, as the characters of the program's own Japanese messages are.
WideChar == "{}}"

RECURSIVE Repeat(_, _)
Repeat(unit, n) ==
    IF n = 0 THEN ""
    ELSE Only({ IF n % 2 = 0 THEN half \o half ELSE half \o half \o unit :
                half \in {Repeat(unit, n \div 2)} })

\* Texts of about 60 and about 180 repetitions of a one-byte or a three-byte
\* character, after a lead with or without white space to collapse.
PreviewTexts ==
    { lead \o Repeat(unit, n) :
        lead \in {"", "x", "ab ", " x  y "},
        unit \in {"a", WideChar},
        n \in (57 .. 62) \cup (175 .. 183) }

previewDelivery(text) ==
    [ valid |-> TRUE,
      payload |-> "event" :> JStr("approval-requested")
                      @@ "last-assistant-message" :> JStr(text) ]

\* The first hook invocation is an approval request with a long message.
previewHook ==
    /\ ~lastHook.ran
    /\ \E text \in PreviewTexts : hookDelivered(previewDelivery(text), defaultEnv, helperWorks)

SpecPreview == ChoicesInit /\ [][previewHook]_vars

\* ------------------------------------------------------------------ main.go: the action subcommand

defaultTerminalID == "com.mitchellh.ghostty"
defaultApproveSeq == "y,enter"
defaultRejectSeq == "n,enter"

\* Largest index of a key process that the machine may refuse.
MaxKeyFailure == 2

terminalBundleID(env) ==
    Only({ IF v # "" THEN v ELSE defaultTerminalID : v \in {TrimSpace(env.terminalBundleID)} })

\* strings.Split(s, sep) for a one-character sep.
RECURSIVE Split(_, _)
Split(s, sep) ==
    IF ~Contains(s, sep) THEN <<s>>
    ELSE Only({ <<SubSeq(s, 1, k - 1)>> \o Split(SubSeq(s, k + 1, Len(s)), sep) :
                k \in {IndexIn(s, sep)} })

\* keySequenceFromEnv(key, fallback) with the environment value of key.
keySequenceFromEnv(envValue, fallback) ==
    Only({ IF Len(out) = 0 /\ fallback # "" THEN Split(fallback, ",") ELSE out :
           out \in {trimmedNonEmpty(Split(IF TrimSpace(envValue) = "" THEN fallback
                                          ELSE TrimSpace(envValue), ","))} })

approveKeySequence(env) == keySequenceFromEnv(env.approveKeys, defaultApproveSeq)

rejectKeySequence(env) == keySequenceFromEnv(env.rejectKeys, defaultRejectSeq)

\* keyCodeForToken: <<code, special>>.
keyCodeForToken(token) ==
    Only({ CASE t \in {"enter", "return"} -> <<36, TRUE>>
             [] t = "tab" -> <<48, TRUE>>
             [] t \in {"esc", "escape"} -> <<53, TRUE>>
             [] t = "space" -> <<49, TRUE>>
             [] t = "up" -> <<126, TRUE>>
             [] t = "down" -> <<125, TRUE>>
             [] t = "left" -> <<123, TRUE>>
             [] t = "right" -> <<124, TRUE>>
             [] OTHER -> <<0, FALSE>> :
           t \in {ToLower(TrimSpace(token))} })

\* One run of exec.Command(osascript, "-e", script) and how it ended.
osascriptRun(script, result) ==
    [path |-> "osascript", argv |-> <<"-e", script>>, result |-> result]

\* The functions below return [err, spawned]: the error ("" for nil) and the
\* processes run, in order.
activateApplication(bundleID, world) ==
    IF ~world.osascript THEN [err |-> "osascript not found", spawned |-> <<>>]
    ELSE Only({ IF world.activate = "failed"
                THEN [err |-> "activate app failed",
                      spawned |-> <<osascriptRun(script, "failed")>>]
                ELSE [err |-> "", spawned |-> <<osascriptRun(script, "ok")>>] :
                script \in {"tell application id \"" \o escapeAppleScript(bundleID)
                                \o "\" to activate"} })

keyScript(token) ==
    Only({ IF key[2]
           THEN "tell application \"System Events\" to key code " \o Itoa(key[1])
           ELSE "tell application \"System Events\" to keystroke \""
                    \o escapeAppleScript(token) \o "\"" :
           key \in {keyCodeForToken(token)} })

\* The loop of sendKeySequence going on to the next token after a failed send.
RECURSIVE sendKeysFromContinuing(_, _, _, _, _)
sendKeysFromContinuing(seq, i, sent, threadID, world) ==
    IF i > Len(seq) THEN [err |-> "", spawned |-> <<>>]
    ELSE Only({ IF token = ""
                THEN sendKeysFromContinuing(seq, i + 1, sent, threadID, world)
                ELSE Only({ [err |-> IF world.keyFailure = sent + 1 THEN "send key"
                                     ELSE rest.err,
                             spawned |-> <<osascriptRun(keyScript(token),
                                                        IF world.keyFailure = sent + 1
                                                        THEN "failed" ELSE "ok")>>
                                             \o rest.spawned] :
                            rest \in {sendKeysFromContinuing(seq, i + 1, sent + 1,
                                                             threadID, world)} }) :
                token \in {TrimSpace(seq[i])} })

\* The loop of sendKeySequence from token i on, after `sent` key processes.
RECURSIVE sendKeysFrom(_, _, _, _, _)
sendKeysFrom(seq, i, sent, threadID, world) ==
    IF i > Len(seq) THEN [err |-> "", spawned |-> <<>>]
    ELSE Only({ IF token = "" THEN sendKeysFrom(seq, i + 1, sent, threadID, world)
                ELSE IF world.keyFailure = sent + 1
                THEN [err |-> IF threadID # "" THEN "send key for thread " \o threadID
                              ELSE "send key",
                      spawned |-> <<osascriptRun(keyScript(token), "failed")>>]
                ELSE Only({ [err |-> rest.err,
                             spawned |-> <<osascriptRun(keyScript(token), "ok")>>
                                             \o rest.spawned] :
                            rest \in {sendKeysFrom(seq, i + 1, sent + 1, threadID, world)} }) :
                token \in {TrimSpace(seq[i])} })

sendKeySequence(seq, threadID, world) ==
    IF ~world.osascript THEN [err |-> "osascript not found", spawned |-> <<>>]
    ELSE sendKeysFrom(seq, 1, 0, threadID, world)

\* sendActionKeys that sends the keys to whatever application is in front.
sendActionKeysWithoutActivation(bundleID, seq, threadID, world) ==
    IF Len(seq) = 0 THEN [err |-> "", spawned |-> <<>>]
    ELSE sendKeySequence(seq, threadID, world)

sendActionKeys(bundleID, seq, threadID, world) ==
    Only({ IF activated.err # "" THEN activated
           ELSE IF Len(seq) = 0 THEN activated
           ELSE Only({ [err |-> keys.err, spawned |-> activated.spawned \o keys.spawned] :
                       keys \in {sendKeySequence(seq, threadID, world)} }) :
           activated \in {activateApplication(bundleID, world)} })

errDialogCanceled == "dialog canceled"

\* The script of the chooser dialog.  The Japanese prompt of the source is
\* written here in ASCII.
chooserScript(threadID, env) ==
    "try\n\tset dialogResult to display dialog \""
        \o escapeAppleScript((IF threadID # "" THEN "thread: " \o threadID \o "\\n" ELSE "")
                                 \o "approval pending. choose the operation to run.")
        \o "\" with title \"Codex Notify\" buttons {\"Open\", \"Approve\", \"Reject\"}"
        \o " default button \"Open\" giving up after "
        \o Itoa(approvalActionTimeoutSeconds(env.approvalTimeout))
        \o "\n\tif gave up of dialogResult then\n\t\treturn \"none\"\n\tend if"
        \o "\n\tset selectedButton to button returned of dialogResult"
        \o "\n\tif selectedButton is \"Open\" then\n\t\treturn \"open\""
        \o "\n\telse if selectedButton is \"Approve\" then\n\t\treturn \"approve\""
        \o "\n\telse\n\t\treturn \"reject\"\n\tend if"
        \o "\non error number -128\n\treturn \"none\"\nend try"

\* What the chooser script prints for what happened to the dialog.
chooserOutput(dialog) ==
    CASE dialog = "Open" -> "open\n"
      [] dialog = "Approve" -> "approve\n"
      [] dialog = "Reject" -> "reject\n"
      [] OTHER -> "none\n"

\* chooseApprovalAction: [choice, err, spawned].
chooseApprovalAction(threadID, env, world) ==
    IF ~world.osascript
    THEN [choice |-> "", err |-> "osascript not found", spawned |-> <<>>]
    ELSE IF world.dialog = "failed"
    THEN [choice |-> "", err |-> "choose action failed",
          spawned |-> <<osascriptRun(chooserScript(threadID, env), "failed")>>]
    ELSE Only({ [choice |-> IF choice \in {"open", "approve", "reject"} THEN choice ELSE "",
                 err |-> IF choice = "" \/ choice = "none" THEN errDialogCanceled
                         ELSE IF choice \in {"open", "approve", "reject"} THEN ""
                         ELSE "unknown choice from dialog: " \o choice,
                 spawned |-> <<osascriptRun(chooserScript(threadID, env), "ok")>>] :
                choice \in {ToLower(TrimSpace(chooserOutput(world.dialog)))} })

\* runChooseAction that reports a dismissed dialog as an error.
runChooseActionCancelIsError(bundleID, threadID, env, world) ==
    Only({ IF chosen.err # "" THEN [err |-> chosen.err, spawned |-> chosen.spawned]
           ELSE Only({ [err |-> done.err, spawned |-> chosen.spawned \o done.spawned] :
                       done \in {CASE chosen.choice = "open" ->
                                          activateApplication(bundleID, world)
                                   [] chosen.choice = "approve" ->
                                          sendActionKeys(bundleID, approveKeySequence(env),
                                                         threadID, world)
                                   [] OTHER ->
                                          sendActionKeys(bundleID, rejectKeySequence(env),
                                                         threadID, world)} }) :
           chosen \in {chooseApprovalAction(threadID, env, world)} })

runChooseAction(bundleID, threadID, env, world) ==
    Only({ IF chosen.err # ""
           THEN [err |-> IF chosen.err = errDialogCanceled THEN "" ELSE chosen.err,
                 spawned |-> chosen.spawned]
           ELSE Only({ [err |-> done.err, spawned |-> chosen.spawned \o done.spawned] :
                       done \in {CASE chosen.choice = "open" ->
                                          activateApplication(bundleID, world)
                                   [] chosen.choice = "approve" ->
                                          sendActionKeys(bundleID, approveKeySequence(env),
                                                         threadID, world)
                                   [] chosen.choice = "reject" ->
                                          sendActionKeys(bundleID, rejectKeySequence(env),
                                                         threadID, world)
                                   [] OTHER ->
                                          [err |-> "unknown chosen action: " \o chosen.choice,
                                           spawned |-> <<>>]} }) :
           chosen \in {chooseApprovalAction(threadID, env, world)} })

\* fs.Parse(args[1:]) of the flag set with the string flags thread-id and
\* text: [err, threadID, text].  A flag is -name or --name, its value the
\* text after "=" or the next argument; the first argument that is no flag
\* ends the parse.
RECURSIVE parseActionFlags(_, _)
parseActionFlags(args, parsed) ==
    IF Len(args) = 0 THEN parsed
    ELSE IF Len(Head(args)) < 2 \/ Ch(Head(args), 1) # "-" THEN parsed
    ELSE IF Head(args) = "--" THEN parsed
    ELSE Only({
        IF Ch(named, 1) = "-" \/ Ch(named, 1) = "="
        THEN [parsed EXCEPT !.err = "bad flag syntax: " \o Head(args)]
        ELSE Only({
            IF name \notin {"thread-id", "text"}
            THEN [parsed EXCEPT !.err = "flag provided but not defined: -" \o name]
            ELSE IF eq = 0 /\ Len(args) < 2
            THEN [parsed EXCEPT !.err = "flag needs an argument: -" \o name]
            ELSE Only({
                parseActionFlags(SubSeq(args, IF eq = 0 THEN 3 ELSE 2, Len(args)),
                                 IF name = "text" THEN [parsed EXCEPT !.text = flagValue]
                                 ELSE [parsed EXCEPT !.threadID = flagValue]) :
                flagValue \in {IF eq = 0 THEN args[2]
                               ELSE SubSeq(named, eq + 1, Len(named))} }) :
            name \in {IF eq = 0 THEN named ELSE SubSeq(named, 1, eq - 1)} }) :
        named \in {SubSeq(Head(args), IF Ch(Head(args), 2) = "-" THEN 3 ELSE 2,
                          Len(Head(args)))},
        eq \in {IF Contains(Head(args), "=") THEN IndexIn(Head(args), "=")
                       - (IF Ch(Head(args), 2) = "-" THEN 2 ELSE 1)
                ELSE 0} })

\* runAction(args): [err, spawned].
runAction(args, env, world) ==
    IF Len(args) = 0
    THEN [err |-> "action requires one of: open, approve, reject, choose, submit",
          spawned |-> <<>>]
    ELSE Only({
        IF flags.err # "" THEN [err |-> flags.err, spawned |-> <<>>]
        ELSE CASE action = "open" -> activateApplication(bundleID, world)
               [] action = "choose" -> runChooseAction(bundleID, flags.threadID, env, world)
               [] action = "approve" ->
                      sendActionKeys(bundleID, approveKeySequence(env), flags.threadID, world)
               [] action = "reject" ->
                      sendActionKeys(bundleID, rejectKeySequence(env), flags.threadID, world)
               [] action = "submit" ->
                      IF TrimSpace(flags.text) = ""
                      THEN [err |-> "submit action requires --text", spawned |-> <<>>]
                      ELSE sendActionKeys(bundleID, <<flags.text, "enter">>,
                                          flags.threadID, world)
               [] OTHER -> [err |-> "unknown action: " \o action, spawned |-> <<>>] :
        action \in {ToLower(TrimSpace(Head(args)))},
        flags \in {parseActionFlags(Tail(args), [err |-> "", threadID |-> "", text |-> ""])},
        bundleID \in {terminalBundleID(env)} })

\* ------------------------------------------------------------------ action invocations

\* The argument lists after `codex-notify action`: the forms the presenter
\* writes into click commands, and malformed ones.
ActionArgs ==
    { <<name>> \o thread \o text :
        name \in {"open", "approve", "reject", "choose", "submit", " Approve", "bogus"},
        thread \in {<<>>, <<"--thread-id", "t1">>},
        text \in {<<>>, <<"-text=Foo">>}
                   \cup { <<"--text", t>> :
                            t \in {"", "  ", "Foo", "enter", " Edit it ", "say \"hi\"", "Up"} } }
        \cup {<<>>, <<"approve", "--bogus">>, <<"submit", "--text">>}

defaultActionEnv ==
    [terminalBundleID |-> "", approveKeys |-> "", rejectKeys |-> "", approvalTimeout |-> ""]

ActionEnvs ==
    { defaultActionEnv,
      [defaultActionEnv EXCEPT !.approveKeys = " a , ,tab", !.rejectKeys = "esc"],
      [defaultActionEnv EXCEPT !.approveKeys = ",", !.terminalBundleID = " com.apple.Terminal "] }

ActionWorlds ==
    [ osascript : BOOLEAN, activate : {"ok", "failed"}, keyFailure : 0..MaxKeyFailure,
      dialog : {"Open", "Approve", "Reject", "gave up", "canceled", "failed"} ]

\* One `codex-notify action ...` process, from main to its exit.
actionInvoked ==
    /\ ~lastAction.ran
    /\ \E args \in ActionArgs, env \in ActionEnvs, world \in ActionWorlds :
           \E result \in {runAction(args, env, world)} :
               lastAction' = [ ran |-> TRUE, args |-> args, env |-> env, world |-> world,
                               err |-> result.err, exit |-> exitStatus(result.err),
                               spawned |-> result.spawned ]
    /\ UNCHANGED <<helperVars, timeoutVars, hookVars, fileVars>>

ActionInit ==
    /\ HelperIdle
    /\ TimeoutIdle
    /\ ActionIdle
    /\ FilesIdle
    /\ HookIdle

SpecAction == ActionInit /\ [][actionInvoked]_vars


\* ------------------------------------------------------------------ a popup helper started by a hook

\* Approval requests whose message or option labels are texts the helper
\* also knows as flag names.
LaunchDeliveries ==
    { [ valid |-> TRUE,
        payload |-> "event" :> JStr("approval-requested")
                        @@ "message" :> JStr(message)
                        @@ (IF thread = "" THEN <<>> ELSE "thread-id" :> JStr(thread))
                        @@ "options" :> JList(options) ] :
        message \in {"run tests?", "--choice-label", "--message"},
        thread \in OptionThreads,
        options \in ListsUpTo({"Yes", "Fix", "--choice-cmd", "--choice-label", "--title"},
                              MaxOptions) }

launchHook ==
    /\ ~lastHook.ran
    /\ \E delivery \in LaunchDeliveries : hookDelivered(delivery, defaultEnv, helperWorks)

\* The helper process the hook started begins to run: it parses the
\* arguments exec.Command gave it.
helperLaunched ==
    /\ pc = "NotStarted"
    /\ lastHook.ran
    /\ \E i \in 1..Len(lastHook.attempts) :
           /\ lastHook.attempts[i].surface = "popup-helper"
           /\ lastHook.attempts[i].result = "started"
           /\ helperArgs' = <<"approval_action_notifier">> \o lastHook.attempts[i].argv
           /\ config' = parseArgs(<<"approval_action_notifier">> \o lastHook.attempts[i].argv)
    /\ pc' = "Idle"
    /\ UNCHANGED <<isClosing, timeoutTimer, panel, elapsed, running, executed,
                   outcome, lockFiles>>
    /\ UNCHANGED <<timeoutVars, hookVars, actionVars, fileVars>>

SpecLaunch == ChoicesInit /\ [][launchHook \/ helperLaunched]_vars

\* ------------------------------------------------------------------ main.go: concurrent helper builds

MaxHooks == 2

\* The hook processes that call ensureApprovalActionHelper at about the same time; all of
\* them embed the same helper source, hence expect the same hash.
Hooks == 1..MaxHooks

\* Files of the cache directory: a file is named by the hook whose compiler created it,
\* PriorBinary is a binary that was there before any of these hooks, 0 is no file.
PriorBinary == 0 - 1

\* The cache directory before the hooks run: empty (first use), holding the binary and the
\* hash of this source (cached), or holding the binary of another release (its hash differs).
BuildStarts ==
    { [ hash |-> start[1], binary |-> start[2], tmp |-> 0, swiftc |-> swiftc,
        content |-> [f \in {PriorBinary} \cup Hooks |->
                        IF f = PriorBinary THEN start[3] ELSE "none"],
        at |-> [h \in Hooks |-> "start"] ] :
      start \in { <<FALSE, 0, "none">>, <<TRUE, PriorBinary, "complete">>,
                  <<FALSE, PriorBinary, "foreign">> },
      swiftc \in BOOLEAN }

\* ensureApprovalActionHelper up to os.Remove(tmpBinaryPath): the cached binary is used when
\* the stored hash is the expected one and the binary is a regular file; else swiftc is
\* looked up and the source is written (atomically, the same text by every hook).
checkCache(h) ==
    /\ build.at[h] = "start"
    /\ build' = [build EXCEPT !.at[h] =
                    IF build.hash /\ build.binary # 0 THEN "cached"
                    ELSE IF ~build.swiftc THEN "failed"
                    ELSE "remove"]

\* _ = os.Remove(tmpBinaryPath)
removeTmp(h) ==
    /\ build.at[h] = "remove"
    /\ build' = [build EXCEPT !.tmp = 0, !.at[h] = "compile"]

\* swiftc creates its output file at tmpBinaryPath and goes on writing it.
compileStarts(h) ==
    /\ build.at[h] = "compile"
    /\ build' = [build EXCEPT !.tmp = h, !.content[h] = "partial", !.at[h] = "compiling"]

\* swiftc has written its whole output and exits with status 0.
compileEnds(h) ==
    /\ build.at[h] = "compiling"
    /\ build' = [build EXCEPT !.content[h] = "complete", !.at[h] = "chmod"]

\* A toolchain whose linker writes elsewhere and moves the finished file to the -o path.
compileAtOnce(h) ==
    /\ build.at[h] = "compile"
    /\ build' = [build EXCEPT !.tmp = h, !.content[h] = "complete", !.at[h] = "chmod"]

\* compileCmd.CombinedOutput() returns an error: os.Remove(tmpBinaryPath), return the error.
compileFails(h) ==
    /\ build.at[h] \in {"compile", "compiling"}
    /\ build' = [build EXCEPT !.tmp = 0, !.at[h] = "failed"]

\* os.Chmod(tmpBinaryPath, 0o755): an error when no file is at the path.
chmodTmp(h) ==
    /\ build.at[h] = "chmod"
    /\ build' = [build EXCEPT !.at[h] = IF build.tmp = 0 THEN "failed" ELSE "rename"]

\* os.Rename(tmpBinaryPath, binaryPath): whatever file is at the temporary path becomes
\* the binary.
installBinary(h) ==
    /\ build.at[h] = "rename"
    /\ build' = IF build.tmp = 0
                THEN [build EXCEPT !.at[h] = "failed"]
                ELSE [build EXCEPT !.binary = build.tmp, !.tmp = 0, !.at[h] = "hash"]

\* writeFileAtomic(hashPath, expectedHash + "\n")
writeHash(h) ==
    /\ build.at[h] = "hash"
    /\ build' = [build EXCEPT !.hash = TRUE, !.at[h] = "installed"]

BuildInit ==
    /\ HelperIdle
    /\ TimeoutIdle
    /\ ActionIdle
    /\ HookIdle
    /\ install = noInstall
    /\ build \in BuildStarts

BuildNext ==
    /\ \E h \in Hooks :
           \/ checkCache(h)
           \/ removeTmp(h)
           \/ compileStarts(h)
           \/ compileEnds(h)
           \/ compileAtOnce(h)
           \/ compileFails(h)
           \/ chmodTmp(h)
           \/ installBinary(h)
           \/ writeHash(h)
    /\ UNCHANGED <<helperVars, timeoutVars, hookVars, actionVars, install>>

SpecBuild == BuildInit /\ [][BuildNext]_vars

\* ------------------------------------------------------------------ main.go: init and uninstall

defaultNotifyLine == "notify = [\"codex-notify\", \"hook\"]"

\* The character of s at position i, "" outside s.
CharAt(s, i) == IF i \in 1..Len(s) THEN SubSeq(s, i, i) ELSE ""

\* The k-th smallest member of a set of numbers.
KthSmallest(S, k) == CHOOSE p \in S : Cardinality({q \in S : q <= p}) = k

\* bufio.ScanLines drops one carriage return at the end of a line.
dropCR(t) == IF CharAt(t, Len(t)) = "\r" THEN SubSeq(t, 1, Len(t) - 1) ELSE t

\* splitLines: "\r\n" becomes "\n", then bufio.Scanner yields the text before each
\* newline and a non-empty rest after the last one, each without a trailing "\r".
splitLines(content) ==
    Only({ Only({ [k \in 1..(Cardinality(nl) + (IF Len(rest) > 0 THEN 1 ELSE 0)) |->
               IF k > Cardinality(nl) THEN dropCR(rest)
               ELSE dropCR(dropCR(SubSeq(content,
                                         IF k = 1 THEN 1 ELSE KthSmallest(nl, k - 1) + 1,
                                         KthSmallest(nl, k) - 1))) ] :
           rest \in { SubSeq(content,
                             IF nl = {} THEN 1 ELSE KthSmallest(nl, Cardinality(nl)) + 1,
                             Len(content)) } }) :
         nl \in {{ i \in 1..Len(content) : Ch(content, i) = "\n" }} })

\* The first position from i on that holds no white space (Len(s) + 1 when there is none).
SkipSpace(s, i) ==
    CHOOSE j \in i..(Len(s) + 1) :
        /\ ~IsSpaceChar(CharAt(s, j))
        /\ \A k \in i..(j - 1) : IsSpaceChar(CharAt(s, k))

\* rootNotifyLineRE = ^notify\s*=
isRootNotifyLine(trimmedLine) ==
    /\ HasPrefix(trimmedLine, "notify")
    /\ CharAt(trimmedLine, SkipSpace(trimmedLine, 7)) = "="

\* codexHookArrayRE = \[\s*"(?:[^"]*/)?codex-notify"\s*,\s*"hook"\s*\] matches s from
\* the bracket at position a.
codexHookArrayAt(s, a) ==
    /\ CharAt(s, a) = "["
    /\ \E q \in {SkipSpace(s, a + 1)} :
         /\ CharAt(s, q) = "\""
         /\ \E e \in (q + 1)..Len(s) :
              /\ CharAt(s, e) = "\""
              /\ \A k \in (q + 1)..(e - 1) : CharAt(s, k) # "\""
              /\ \/ SubSeq(s, q + 1, e - 1) = "codex-notify"
                 \/ /\ e - q - 1 >= 13
                    /\ SubSeq(s, e - 13, e - 1) = "/codex-notify"
              /\ \E c \in {SkipSpace(s, e + 1)} :
                   /\ CharAt(s, c) = ","
                   /\ \E h \in {SkipSpace(s, c + 1)} :
                        /\ h + 5 <= Len(s)
                        /\ SubSeq(s, h, h + 5) = "\"hook\""
                        /\ CharAt(s, SkipSpace(s, h + 6)) = "]"

\* isCodexNotifyHookLine: a root notify line whose text after the first "=" holds the
\* codex-notify hook array.
isCodexNotifyHookLine(trimmedLine) ==
    /\ isRootNotifyLine(trimmedLine)
    /\ \E rhs \in {TrimSpace(SubSeq(trimmedLine, SkipSpace(trimmedLine, 7) + 1,
                                    Len(trimmedLine)))} :
           \E a \in 1..Len(rhs) : codexHookArrayAt(rhs, a)

\* The lines configHasCodexNotify and findNotifyLineIndex skip.
skipped(trimmed) == trimmed = "" \/ HasPrefix(trimmed, "#")

\* configHasCodexNotify reading root-level lines only: it stops at the first section header.
configHasCodexNotifyRootOnly(content) ==
    \E lines \in {splitLines(content)} :
        \E i \in 1..Len(lines) :
            /\ ~skipped(TrimSpace(lines[i]))
            /\ isCodexNotifyHookLine(TrimSpace(lines[i]))
            /\ \A k \in 1..(i - 1) : ~HasPrefix(TrimSpace(lines[k]), "[")

configHasCodexNotify(content) ==
    \E lines \in {splitLines(content)} :
        \E i \in 1..Len(lines) :
            /\ ~skipped(TrimSpace(lines[i]))
            /\ isCodexNotifyHookLine(TrimSpace(lines[i]))

\* findNotifyLineIndex, counting lines from 1; 0 is Go's -1.
findNotifyLineIndex(content) ==
    Only({ IF found = {} THEN 0 ELSE KthSmallest(found, 1) :
           found \in {{ i \in 1..Len(splitLines(content)) :
                          /\ ~skipped(TrimSpace(splitLines(content)[i]))
                          /\ isRootNotifyLine(TrimSpace(splitLines(content)[i])) }} })

\* setNotifyLine with idx counted from 1 (0: no notify line).
setNotifyLine(content, idx, notifyLine) ==
    Only({ JoinWith(IF idx > 0 THEN [lines EXCEPT ![idx] = notifyLine]
                    ELSE IF Len(lines) > 0 /\ TrimSpace(lines[Len(lines)]) # ""
                         THEN lines \o <<"", notifyLine>>
                         ELSE Append(lines, notifyLine),
                    "\n") \o "\n" :
           lines \in {splitLines(content)} })

\* removeCodexNotifyLine: [text, removed].
removeCodexNotifyLine(content) ==
    Only({ [ text |-> IF TrimSpace(JoinWith(out, "\n")) = "" THEN ""
                      ELSE JoinWith(out, "\n") \o "\n",
             removed |-> Len(out) < Len(splitLines(content)) ] :
           out \in {SelectSeq(splitLines(content),
                              LAMBDA line : ~isCodexNotifyHookLine(TrimSpace(line)))} })

\* createBackup that saves the text without its surrounding white space.
createBackupTrimmed(st, content, by) ==
    [st EXCEPT !.backups = Append(@, [time |-> st.clock, content |-> TrimSpace(content),
                                      by |-> by]),
               !.clock = @ + 1]

\* createBackup: <config>.bak.<time.Now().UnixNano()> with the given content.  `by` keeps
\* the command that made the backup; the file itself does not tell.
createBackup(st, content, by) ==
    [st EXCEPT !.backups = Append(@, [time |-> st.clock, content |-> content, by |-> by]),
               !.clock = @ + 1]

\* findLatestBackup: the last name of the sorted <config>.bak.<digits> names, 0 if there
\* is none.  UnixNano times have 19 digits, so the order of the names is that of the times.
findLatestBackup(st) ==
    IF st.backups = <<>> THEN 0
    ELSE CHOOSE i \in 1..Len(st.backups) :
             \A j \in 1..Len(st.backups) : st.backups[j].time <= st.backups[i].time

\* readFileMaybe: the content, empty for a missing file.
readFileMaybe(st) == IF st.exists THEN st.text ELSE ""

\* One finished command: what it was given, the config it found, the files it wrote in
\* order, and its error ("" for none).
finished(st, before, cmd, flag, wrote, err) ==
    [st EXCEPT !.runs = Append(@, [ cmd |-> cmd, flag |-> flag, err |-> err,
                                    before |-> [exists |-> before.exists,
                                                text |-> before.text],
                                    backupsBefore |-> Len(before.backups),
                                    wrote |-> wrote ])]

\* writeFileAtomic(cfgPath, content)
writeConfig(st, content) == [st EXCEPT !.exists = TRUE, !.text = content]

\* runInit with the --replace flag; io names the file write that fails, if any.
runInit(st, replace, io) ==
    IF Len(readFileMaybe(st)) = 0
    THEN IF io = "config-write-fails"
         THEN finished(st, st, "init", replace, <<>>, "write config")
         ELSE finished(writeConfig(st, defaultNotifyLine \o "\n"), st, "init", replace,
                       <<[file |-> "config", content |-> defaultNotifyLine \o "\n"]>>, "")
    ELSE IF configHasCodexNotify(st.text)
    THEN finished(st, st, "init", replace, <<>>, "")
    ELSE IF findNotifyLineIndex(st.text) > 0 /\ ~replace
    THEN finished(st, st, "init", replace, <<>>,
                  "existing notify config found; rerun with --replace to update it")
    ELSE IF io = "backup-fails"
    THEN finished(st, st, "init", replace, <<>>, "write backup")
    ELSE IF io = "config-write-fails"
    THEN finished(createBackup(st, st.text, "init"), st, "init", replace,
                  <<[file |-> "backup", content |-> st.text]>>, "update config")
    ELSE Only({ finished(writeConfig(createBackup(st, st.text, "init"), updated), st,
                         "init", replace,
                         <<[file |-> "backup", content |-> st.text],
                           [file |-> "config", content |-> updated]>>, "") :
                updated \in {setNotifyLine(st.text, findNotifyLineIndex(st.text),
                                           defaultNotifyLine)} })

\* runUninstall with the --restore-config flag (true by default).
runUninstall(st, restore, io) ==
    IF Len(readFileMaybe(st)) = 0
    THEN finished(st, st, "uninstall", restore, <<>>, "")
    ELSE IF restore
    THEN IF findLatestBackup(st) = 0
         THEN finished(st, st, "uninstall", restore, <<>>,
                       "no backup found; cannot restore")
         ELSE IF io = "config-write-fails"
         THEN finished(st, st, "uninstall", restore, <<>>, "restore config")
         ELSE finished(writeConfig(st, st.backups[findLatestBackup(st)].content), st,
                       "uninstall", restore,
                       <<[file |-> "config",
                          content |-> st.backups[findLatestBackup(st)].content]>>, "")
    ELSE IF ~removeCodexNotifyLine(st.text).removed
    THEN finished(st, st, "uninstall", restore, <<>>, "")
    ELSE IF io = "backup-fails"
    THEN finished(st, st, "uninstall", restore, <<>>, "write backup")
    ELSE IF io = "config-write-fails"
    THEN finished(createBackup(st, st.text, "uninstall"), st, "uninstall", restore,
                  <<[file |-> "backup", content |-> st.text]>>, "write config")
    ELSE finished(writeConfig(createBackup(st, st.text, "uninstall"),
                              removeCodexNotifyLine(st.text).text), st,
                  "uninstall", restore,
                  <<[file |-> "backup", content |-> st.text],
                    [file |-> "config", content |-> removeCodexNotifyLine(st.text).text]>>,
                  "")

\* ------------------------------------------------------------------ init and uninstall runs

MaxRuns == 3

\* The config.toml a user may have before the first init: none, an empty file, a blank
\* line, settings with and without a final newline or with CRLF line ends, the hook
\* already configured (by bare name or by path), another notify program, a commented
\* notify line, sections, and another notify program at root with the hook in a section.
ConfigTexts ==
    { "", "\n", "m = 1\n", "m = 1", "m = 1\r\nk = 2\r\n",
      "notify = [\"codex-notify\", \"hook\"]\n",
      "m = 1\nnotify=[ \"/opt/bin/codex-notify\",\"hook\" ]\n",
      "notify = [\"say\"]\nm = 1\n",
      "# notify = [\"say\"]\n",
      "m = 1\n\n[tui]\nt = 2\n",
      "[tui]\nt = 2\n\n[mcp]\nc = 3",
      "notify = [\"say\"]\n[p]\nnotify = [\"codex-notify\", \"hook\"]\n" }

InstallStarts ==
    { [ exists |-> FALSE, text |-> "", backups |-> <<>>, clock |-> 1, runs |-> <<>> ] }
    \cup { [ exists |-> TRUE, text |-> text, backups |-> <<>>, clock |-> 1, runs |-> <<>> ] :
           text \in ConfigTexts }

FileFailures == {"none", "backup-fails", "config-write-fails"}

\* codex-notify init [--replace]
initInvoked ==
    /\ Len(install.runs) < MaxRuns
    /\ \E replace \in BOOLEAN, io \in FileFailures :
           \E next \in {runInit(install, replace, io)} : install' = next
    /\ UNCHANGED <<helperVars, timeoutVars, hookVars, actionVars, build>>

\* codex-notify uninstall [--restore-config=false]
uninstallInvoked ==
    /\ Len(install.runs) < MaxRuns
    /\ \E restore \in BOOLEAN, io \in FileFailures :
           \E next \in {runUninstall(install, restore, io)} : install' = next
    /\ UNCHANGED <<helperVars, timeoutVars, hookVars, actionVars, build>>

InstallInit ==
    /\ HelperIdle
    /\ TimeoutIdle
    /\ ActionIdle
    /\ HookIdle
    /\ build = noBuild
    /\ install \in InstallStarts

SpecInstall == InstallInit /\ [][initInvoked \/ uninstallInvoked]_vars

\* ------------------------------------------------------------------ claims: the helper run

\* The command runShell is waiting for can never exit.
blockedForGood ==
    running # 0 /\ config.choices[running].command \in HangingCommands

\* C1 (as claimed): in one run of the helper at most one choice command is
\* executed, whatever clicks, dismissals and timer expiries are delivered,
\* clicks during the closing animation included.
C1_AtMostOneCommand == Len(executed) <= 1

\* C5 (as claimed): started with a non-empty --interaction-lock-file path, the
\* helper has removed the marker file at that path once it has left
\* Displaying, and in Terminated the marker does not exist.
C5_MarkerRemovedForNonEmptyPath ==
    (config.interactionLockFile # "" /\ (isClosing \/ pc = "Terminated"))
        => config.interactionLockFile \notin lockFiles

\* C5 (amended): the same for a path that is non-empty and has no leading or
\* trailing whitespace, which is the path the helper removes.
C5_MarkerRemovedForTrimmedPath ==
    ( /\ config.interactionLockFile # ""
      /\ TrimSpace(config.interactionLockFile) = config.interactionLockFile
      /\ (isClosing \/ pc = "Terminated") )
        => config.interactionLockFile \notin lockFiles

C5_Witness ==
    /\ pc = "Terminated"
    /\ config.interactionLockFile = "lockA"
    /\ outcome = "UserChose"
    /\ executed # <<>>

\* C6 (as claimed): a run whose popup was closed by the countdown or by the
\* dismiss control, no choice having been clicked before, executes no command.
C6_NoCommandAfterTimeoutOrDismiss ==
    outcome \in {"TimedOut", "Dismissed"} => executed = <<>>

TimeoutRule(parsed) ==
    IF parsed = <<>> THEN 45
    ELSE IF parsed[1] < 5 THEN 5
    ELSE IF parsed[1] > 300 THEN 300
    ELSE parsed[1]

hookGroups(delivery, env) ==
    (IF shouldUseNativeApprovalNotification(delivery.payload, env)
     THEN {notificationGroup("approval-native", payloadThreadID(delivery.payload))}
     ELSE {})
        \cup {buildHookNotifications(delivery.payload, env)[i].Group :
                  i \in 1..Len(buildHookNotifications(delivery.payload, env))}

\* The attempts that started a process: every one but a helper that could
\* not be prepared or launched.
startedAttempts(attempts) ==
    {i \in 1..Len(attempts) : attempts[i].result \notin {"prepare-failed", "start-failed"}}

\* C2: a hook invocation for a group whose popup is open starts no popup
\* helper, no terminal-notifier and no osascript notification.
C2_HookWhilePopupOpenDispatchesNothing ==
    (lastHook.ran /\ hookGroups(lastHook.delivery, lastHook.env) \cap lastHook.openBefore # {})
        => startedAttempts(lastHook.attempts) = {}

popupsOfGroup(identifier) ==
    {p \in BagToSet(popups) : p.identifier = identifier}

\* C3: at any time at most one presenter-started popup helper is Displaying
\* for one group.
C3_AtMostOnePopupPerGroup ==
    \A p \in BagToSet(popups) :
        /\ CopiesIn(p, popups) <= 1
        /\ popupsOfGroup(p.identifier) = {p}

\* C4: every Displaying popup helper the presenter started was given a lock
\* file path, and a file exists at that path.
C4_MarkerExistsWhileDisplaying ==
    \A p \in BagToSet(popups) :
        /\ TrimSpace(p.interactionLockFile) # ""
        /\ TrimSpace(p.interactionLockFile) \in lockFiles

surfaceRank(surface) ==
    CASE surface = "popup-helper" -> 1
      [] surface = "terminal-notifier" -> 2
      [] surface = "osascript" -> 3

helperFailed(attempts) ==
    \E i \in 1..Len(attempts) : attempts[i].result \in {"prepare-failed", "start-failed"}

\* The helper was tried and no try started it.
helperUnavailable(attempts) ==
    /\ helperFailed(attempts)
    /\ \A i \in 1..Len(attempts) : attempts[i].result # "started"

helperErrors ==
    { "create helper dir", "swiftc not found", "compile helper failed",
      "write helper hash", "start native approval notifier",
      "start native popup notifier" }

\* C9: the attempts of a hook invocation go request by request (the approval
\* popup first), and for one request in the order popup helper,
\* terminal-notifier, osascript, each at most once; a request's popup helper
\* is tried only in the popup notification UI; the error returned is never
\* the helper's, and when the helper failed and terminal-notifier or
\* osascript works the invocation returns no error.
C9_SurfaceOrderAndFallThrough ==
    lastHook.ran =>
        /\ \A i, j \in 1..Len(lastHook.attempts) :
               i < j =>
                   /\ lastHook.attempts[i].request <= lastHook.attempts[j].request
                   /\ lastHook.attempts[i].request = lastHook.attempts[j].request
                          => surfaceRank(lastHook.attempts[i].surface)
                                 < surfaceRank(lastHook.attempts[j].surface)
        /\ \A i \in 1..Len(lastHook.attempts) :
               (lastHook.attempts[i].surface = "popup-helper"
                    /\ lastHook.attempts[i].request >= 1)
                   => notificationUIStyle(lastHook.env) = "popup"
        /\ lastHook.err \notin helperErrors
        /\ (helperFailed(lastHook.attempts)
                /\ (lastHook.world.terminalNotifier = "ok"
                        \/ lastHook.world.osascript = "ok"))
               => lastHook.err = ""

\* An approval popup that could not be built, a request popup that could not
\* be built, a terminal-notifier that failed, an osascript that worked.
C9_Witness ==
    /\ lastHook.ran
    /\ lastHook.err = ""
    /\ Len(lastHook.attempts) = 4
    /\ lastHook.attempts[1].result = "prepare-failed"
    /\ lastHook.attempts[2].result = "prepare-failed"
    /\ lastHook.attempts[3].surface = "terminal-notifier"
    /\ lastHook.attempts[3].result = "failed"
    /\ lastHook.attempts[4].surface = "osascript"
    /\ lastHook.attempts[4].result = "ok"

\* C10: a hook invocation whose popup helper could not be prepared or
\* launched, on a machine with neither terminal-notifier nor osascript,
\* returns the 'no notifier available' error and exits non-zero.
C10_NoNotifierAvailable ==
    (lastHook.ran /\ helperUnavailable(lastHook.attempts)
         /\ lastHook.world.terminalNotifier = "missing"
         /\ lastHook.world.osascript = "missing")
        => (lastHook.err = noNotifierError /\ lastHook.exit # 0)

C10_Witness ==
    /\ lastHook.ran
    /\ lastHook.attempts # <<>>
    /\ lastHook.attempts[Len(lastHook.attempts)].result = "start-failed"
    /\ lastHook.world.terminalNotifier = "missing"
    /\ lastHook.world.osascript = "missing"
    /\ lastHook.err = noNotifierError
    /\ lastHook.exit = 1

\* ------------------------------------------------------------------ claims: the choices of an approval popup

\* The choices on the command line of the popup helper a hook started.
RECURSIVE zipChoices(_, _)
zipChoices(labels, commands) ==
    IF Len(labels) = 0 \/ Len(commands) = 0 THEN <<>>
    ELSE <<[Label |-> Head(labels), Command |-> Head(commands)]>>
             \o zipChoices(Tail(labels), Tail(commands))

popupChoices ==
    zipChoices(values(lastHook.attempts[1].argv, "--choice-label"),
               values(lastHook.attempts[1].argv, "--choice-cmd"))

approvalPopupStarted ==
    /\ lastHook.ran
    /\ Len(lastHook.attempts) = 1
    /\ lastHook.attempts[1].request = 0
    /\ lastHook.attempts[1].result = "started"

\* The option labels of the delivery as the payload holds them.
deliveredOptions ==
    IF "options" \in DOMAIN lastHook.delivery.payload
    THEN lastHook.delivery.payload["options"].v
    ELSE <<>>

deliveredThread ==
    IF "thread-id" \in DOMAIN lastHook.delivery.payload
    THEN lastHook.delivery.payload["thread-id"].v
    ELSE ""

\* The labels that are not blank, in order.
nonBlank(labels) == SelectSeq(labels, LAMBDA l : TrimSpace(l) # "")

Vocabulary ==
    { "open", "show", "focus", "approve", "approved", "allow", "yes", "y", "ok",
      "reject", "denied", "deny", "no", "n", "cancel" }

vocabularyAction(word) ==
    IF word \in {"open", "show", "focus"} THEN "open"
    ELSE IF word \in {"approve", "approved", "allow", "yes", "y", "ok"} THEN "approve"
    ELSE "reject"

RECURSIVE lettersOf(_)
lettersOf(s) ==
    IF Len(s) = 0 THEN s
    ELSE (IF Contains(LowerLetters \o UpperLetters, Ch(s, 1)) THEN ToLowerChar(Ch(s, 1))
          ELSE "")
             \o lettersOf(SubSeq(s, 2, Len(s)))

\* The label is a vocabulary word up to letter case and any punctuation.
matchesVocabulary(label) == lettersOf(label) \in Vocabulary

RECURSIVE withoutSeparators(_)
withoutSeparators(s) ==
    IF Len(s) = 0 THEN s
    ELSE (IF Ch(s, 1) \in {" ", "-", "_"} THEN "" ELSE ToLowerChar(Ch(s, 1)))
             \o withoutSeparators(SubSeq(s, 2, Len(s)))

\* The label is a vocabulary word up to letter case, blanks, hyphens and
\* underscores.
matchesVocabularyUpToSeparators(label) == withoutSeparators(label) \in Vocabulary

\* C11: an option list of exactly two labels, neither blank nor a vocabulary
\* word, gives two choices: the first with the approve command, the second
\* with the reject command.
C11_TwoUnknownLabelsByPosition ==
    (approvalPopupStarted /\ Len(deliveredOptions) = 2
         /\ nonBlank(deliveredOptions) = deliveredOptions
         /\ \A i \in 1..2 : ~matchesVocabulary(deliveredOptions[i]))
        => /\ Len(popupChoices) = 2
           /\ popupChoices[1].Command = buildActionCommand("approve", deliveredThread)
           /\ popupChoices[2].Command = buildActionCommand("reject", deliveredThread)

C11_Witness ==
    /\ approvalPopupStarted
    /\ deliveredOptions = <<"Foo", "Edit it">>
    /\ deliveredThread = "t1"
    /\ popupChoices[1] = [Label |-> "Foo", Command |-> buildActionCommand("approve", "t1")]
    /\ popupChoices[2] = [Label |-> "Edit it", Command |-> buildActionCommand("reject", "t1")]

\* C12: a payload with no option label (no option field, an empty list, or
\* only blank labels) gives the choices Open, Approve, Reject, in this order,
\* with the open, approve and reject commands for the payload's thread.
C12_DefaultTriple ==
    (approvalPopupStarted /\ nonBlank(deliveredOptions) = <<>>)
        => popupChoices =
               << [Label |-> "Open", Command |-> buildActionCommand("open", deliveredThread)],
                  [Label |-> "Approve",
                   Command |-> buildActionCommand("approve", deliveredThread)],
                  [Label |-> "Reject",
                   Command |-> buildActionCommand("reject", deliveredThread)] >>

C12_Witness ==
    /\ approvalPopupStarted
    /\ "options" \notin DOMAIN lastHook.delivery.payload
    /\ deliveredThread = "t1"
    /\ Len(popupChoices) = 3
    /\ popupChoices[2].Command = "'/opt/bin/codex-notify' action 'approve' --thread-id 't1'"

\* The i-th non-blank label of the delivery has the command of this action.
choiceHasAction(i, action) ==
    /\ Len(popupChoices) = Len(nonBlank(deliveredOptions))
    /\ popupChoices[i].Command = buildActionCommand(action, deliveredThread)

\* C13 as stated: a label that is a vocabulary word up to letter case and
\* punctuation gets that word's action, at every index and list length.
C13_VocabularyUpToPunctuation ==
    approvalPopupStarted =>
        \A i \in 1..Len(nonBlank(deliveredOptions)) :
            matchesVocabulary(nonBlank(deliveredOptions)[i])
                => choiceHasAction(i, vocabularyAction(lettersOf(nonBlank(deliveredOptions)[i])))

\* C13: a label that is a vocabulary word up to letter case, blanks, hyphens
\* and underscores gets that word's action, at every index and list length.
C13_VocabularyUpToSeparators ==
    approvalPopupStarted =>
        \A i \in 1..Len(nonBlank(deliveredOptions)) :
            matchesVocabularyUpToSeparators(nonBlank(deliveredOptions)[i])
                => choiceHasAction(i, vocabularyAction(
                                          withoutSeparators(nonBlank(deliveredOptions)[i])))

C13_Witness ==
    /\ approvalPopupStarted
    /\ deliveredOptions = <<"Foo", " Show ", "O-K">>
    /\ choiceHasAction(2, "open")
    /\ choiceHasAction(3, "approve")

\* C14: when the number of non-blank labels is not two, a label that is no
\* vocabulary word gets the command `action submit --text <label>` with the
\* trimmed label as the text and the payload's thread, never a key-sequence
\* action.
C14_UnknownLabelSubmitsText ==
    (approvalPopupStarted /\ Len(nonBlank(deliveredOptions)) # 2)
        => \A i \in 1..Len(nonBlank(deliveredOptions)) :
               ~matchesVocabularyUpToSeparators(nonBlank(deliveredOptions)[i])
                   => /\ Len(popupChoices) = Len(nonBlank(deliveredOptions))
                      /\ popupChoices[i].Command =
                             JoinWith(<<shellQuote(executablePath), "action", "submit",
                                        "--text",
                                        shellQuote(TrimSpace(nonBlank(deliveredOptions)[i]))>>
                                          \o (IF deliveredThread = "" THEN <<>>
                                              ELSE <<"--thread-id",
                                                     shellQuote(deliveredThread)>>),
                                      " ")

C14_Witness ==
    /\ approvalPopupStarted
    /\ deliveredOptions = <<"Yes", "Edit it", "no">>
    /\ deliveredThread = "t1"
    /\ popupChoices[2].Command
           = "'/opt/bin/codex-notify' action submit --text 'Edit it' --thread-id 't1'"


\* ------------------------------------------------------------------ claims: the preview text

\* Number of characters of a UTF-8 text: the bytes that are not continuation
\* bytes.
RuneCount(s) == Cardinality({i \in 1..Len(s) : Ch(s, i) # "}"})

\* A text is well-formed UTF-8 when every lead byte is followed by its two
\* continuation bytes and no continuation byte stands alone.
ValidUtf8(s) ==
    \A i \in 1..Len(s) :
        /\ Ch(s, i) = "{" => i + 2 <= Len(s) /\ SubSeq(s, i, i + 2) = WideChar
        /\ Ch(s, i) = "}" =>
               \/ i >= 2 /\ Ch(s, i - 1) = "{"
               \/ i >= 3 /\ SubSeq(s, i - 2, i - 1) = "{}"

EndsWith(s, suffix) ==
    Len(s) >= Len(suffix) /\ SubSeq(s, Len(s) - Len(suffix) + 1, Len(s)) = suffix

\* The whitespace-normalized preview source of the delivery.
previewSource ==
    IF "last-assistant-message" \in DOMAIN lastHook.delivery.payload
    THEN CollapseSpaces(lastHook.delivery.payload["last-assistant-message"].v)
    ELSE ""

\* The message the popup shows.
shownMessage == Head(values(lastHook.attempts[1].argv, "--message"))

previewShown == approvalPopupStarted /\ previewSource # ""

\* C15: a preview source longer than 180 characters gives a preview of
\* exactly 180 characters that ends with "..."; a source of at most 180
\* characters is shown unchanged.
C15_PreviewWithin180Characters ==
    previewShown =>
        IF RuneCount(previewSource) > PreviewLimit
        THEN RuneCount(shownMessage) = PreviewLimit /\ EndsWith(shownMessage, "...")
        ELSE shownMessage = previewSource

\* What the code does keep: the same statement counted in bytes.
PreviewWithin180Bytes ==
    previewShown =>
        IF Len(previewSource) > PreviewLimit
        THEN Len(shownMessage) = PreviewLimit /\ EndsWith(shownMessage, "...")
        ELSE shownMessage = previewSource

\* The shown preview is well-formed text whenever the source is.
PreviewIsValidText ==
    previewShown /\ ValidUtf8(previewSource) => ValidUtf8(shownMessage)

\* A source of more than 180 one-byte characters is cut.
PreviewCut ==
    /\ previewShown
    /\ RuneCount(previewSource) = Len(previewSource)
    /\ Len(previewSource) > PreviewLimit


\* ------------------------------------------------------------------ claims: the action subcommand

actionName ==
    IF Len(lastAction.args) = 0 THEN "" ELSE ToLower(TrimSpace(Head(lastAction.args)))

\* The flags of the invocation, when they parse.
actionFlags ==
    parseActionFlags(Tail(lastAction.args), [err |-> "", threadID |-> "", text |-> ""])

actionRan(names) ==
    /\ lastAction.ran
    /\ actionName \in names
    /\ actionFlags.err = ""

isActivation(run) == HasPrefix(run.argv[2], "tell application id \"")

isKeyEvent(run) == HasPrefix(run.argv[2], "tell application \"System Events\" to ")

isChooser(run) == ContainsText(run.argv[2], "display dialog")

scriptsOf(runs) == [i \in 1..Len(runs) |-> runs[i].argv[2]]

keyEventsOf(runs) == scriptsOf(SelectSeq(runs, isKeyEvent))

\* The key events that send the tokens, one event per token, in order.
eventsForTokens(tokens) == [i \in 1..Len(tokens) |-> keyScript(tokens[i])]

configuredTokens ==
    IF actionName = "approve" THEN approveKeySequence(lastAction.env)
    ELSE rejectKeySequence(lastAction.env)

IsPrefixOf(a, b) == Len(a) <= Len(b) /\ a = SubSeq(b, 1, Len(a))

\* C16: approve and reject activate the application before any key event,
\* then send the configured tokens one at a time in their order (all of them
\* when no send fails); when the activation fails no key event is sent.
C16_ActivateThenKeysInOrder ==
    actionRan({"approve", "reject"}) =>
        /\ \A i \in 1..Len(lastAction.spawned) :
               isKeyEvent(lastAction.spawned[i]) =>
                   /\ i > 1
                   /\ isActivation(lastAction.spawned[1])
                   /\ lastAction.spawned[1].result = "ok"
        /\ IsPrefixOf(keyEventsOf(lastAction.spawned), eventsForTokens(configuredTokens))
        /\ lastAction.err = "" =>
               keyEventsOf(lastAction.spawned) = eventsForTokens(configuredTokens)

C16_Witness ==
    /\ actionRan({"approve"})
    /\ lastAction.env.approveKeys = " a , ,tab"
    /\ lastAction.err = ""
    /\ Len(lastAction.spawned) = 3

\* An approve whose activation failed.
ActivationFailed ==
    /\ actionRan({"approve", "reject"})
    /\ Len(lastAction.spawned) = 1
    /\ lastAction.spawned[1].result = "failed"

literalKeystroke(text) ==
    "tell application \"System Events\" to keystroke \"" \o escapeAppleScript(text) \o "\""

enterKey == "tell application \"System Events\" to key code 36"

\* C17: submit with a non-empty text types the text literally and then
\* sends one Enter; with an empty or blank text it fails with the missing-text
\* error and runs no process.
C17_SubmitTypesLiteralText ==
    actionRan({"submit"}) =>
        IF TrimSpace(actionFlags.text) = ""
        THEN /\ lastAction.err = "submit action requires --text"
             /\ lastAction.spawned = <<>>
        ELSE lastAction.err = "" =>
                 keyEventsOf(lastAction.spawned)
                     = <<literalKeystroke(TrimSpace(actionFlags.text)), enterKey>>

\* The part of C17 about a missing text.
SubmitWithoutTextRunsNothing ==
    actionRan({"submit"}) /\ TrimSpace(actionFlags.text) = "" =>
        /\ lastAction.err = "submit action requires --text"
        /\ lastAction.exit = 1
        /\ lastAction.spawned = <<>>

\* C17 for the texts that are not the name of a special key.
SubmitTypesOrdinaryText ==
    actionRan({"submit"}) /\ TrimSpace(actionFlags.text) # "" /\ lastAction.err = ""
            /\ ~keyCodeForToken(actionFlags.text)[2] =>
        keyEventsOf(lastAction.spawned)
            = <<literalKeystroke(TrimSpace(actionFlags.text)), enterKey>>

SubmittedText ==
    /\ actionRan({"submit"})
    /\ actionFlags.text = "Foo"
    /\ lastAction.err = ""

\* The chooser dialog was shown and ended in `how`.
chooserEnded(how) ==
    /\ actionRan({"choose"})
    /\ lastAction.world.osascript
    /\ lastAction.world.dialog \in how

\* What `action <name>` with the same flags does on the same machine.
directDispatch(name) ==
    runAction(<<name>> \o Tail(lastAction.args), lastAction.env, lastAction.world)

\* C18: a chooser that times out or is cancelled ends the dispatch with
\* success, without activation and without key event; a chooser answered
\* Open, Approve or Reject is followed by exactly the open, approve or reject
\* dispatch.
C18_ChooseDispatch ==
    /\ chooserEnded({"gave up", "canceled"}) =>
           /\ lastAction.err = ""
           /\ lastAction.exit = 0
           /\ Len(lastAction.spawned) = 1
           /\ isChooser(lastAction.spawned[1])
    /\ \A picked \in {"Open", "Approve", "Reject"} :
           chooserEnded({picked}) =>
               /\ isChooser(lastAction.spawned[1])
               /\ Tail(lastAction.spawned) = directDispatch(ToLower(picked)).spawned
               /\ lastAction.err = directDispatch(ToLower(picked)).err

C18_Witness ==
    /\ chooserEnded({"gave up"})
    /\ lastAction.exit = 0
    /\ Len(lastAction.spawned) = 1

\* A chooser answered Approve whose keys were all sent.
ChoseApprove ==
    /\ chooserEnded({"Approve"})
    /\ lastAction.err = ""
    /\ Len(lastAction.spawned) = 4


\* ------------------------------------------------------------------ claims: click commands of a hook

Range(seq) == {seq[i] : i \in 1..Len(seq)}

\* The commands a dispatched surface runs on a click: the choices of a popup
\* helper and the -execute of terminal-notifier.
clickCommands(dispatched) ==
    Range(values(dispatched.argv, "--choice-cmd")) \cup Range(values(dispatched.argv, "-execute"))

\* The command is `<executable> action <name> ...`, the name quoted for the
\* shell or not.
isActionCommand(command, name) ==
    \/ ContainsText(command, " action '" \o name \o "'")
    \/ ContainsText(command \o " ", " action " \o name \o " ")

hookDelivery == lastHook.ran /\ lastHook.delivery.valid

approvalEvent == payloadEventName(lastHook.delivery.payload) = "approval-requested"

\* C19: with approval actions disabled, or for an event that is not
\* approval-requested, the hook starts no approval popup and every click
\* command it hands to a surface is `action open`, never approve, reject,
\* submit or choose.
C19_OnlyOpenWithoutApprovalActions ==
    (hookDelivery /\ (~approvalActionsEnabled(lastHook.env) \/ ~approvalEvent)) =>
        \A i \in 1..Len(lastHook.attempts) :
            /\ lastHook.attempts[i].request # 0
            /\ \A command \in clickCommands(lastHook.attempts[i]) :
                   /\ isActionCommand(command, "open")
                   /\ \A name \in {"approve", "reject", "submit", "choose"} :
                          ~isActionCommand(command, name)

C19_Witness ==
    /\ hookDelivery
    /\ approvalEvent
    /\ ~approvalActionsEnabled(lastHook.env)
    /\ Len(lastHook.attempts) = 2
    /\ lastHook.attempts[2].surface = "terminal-notifier"
    /\ lastHook.attempts[2].result = "ok"
    /\ clickCommands(lastHook.attempts[2]) # {}

\* The approval popup was wanted and no popup helper could be started.
popupApprovalWithoutHelper ==
    /\ hookDelivery
    /\ shouldUseNativeApprovalNotification(lastHook.delivery.payload, lastHook.env)
    /\ helperUnavailable(lastHook.attempts)

\* The surfaces that delivered the notification.
delivered ==
    {i \in 1..Len(lastHook.attempts) : lastHook.attempts[i].result = "ok"}

\* C20: when the approval popup is wanted and the popup helper is
\* unavailable, the notification dispatched instead carries the click command
\* `action choose`.
C20_FallbackCarriesChoose ==
    (popupApprovalWithoutHelper /\ lastHook.err = "") =>
        /\ delivered # {}
        /\ \A i \in delivered :
               \E command \in clickCommands(lastHook.attempts[i]) :
                   isActionCommand(command, "choose")

\* The part of C20 the code keeps: a fallback through terminal-notifier
\* carries the choose command.
FallbackThroughTerminalNotifierCarriesChoose ==
    popupApprovalWithoutHelper =>
        \A i \in delivered :
            lastHook.attempts[i].surface = "terminal-notifier" =>
                \E command \in clickCommands(lastHook.attempts[i]) :
                    isActionCommand(command, "choose")

\* A fallback that ended in a plain osascript notification.
FallbackThroughOsascript ==
    /\ popupApprovalWithoutHelper
    /\ lastHook.err = ""
    /\ \E i \in delivered : lastHook.attempts[i].surface = "osascript"


\* ------------------------------------------------------------------ claims: a failed key send

failedKeyEvents ==
    {i \in 1..Len(lastAction.spawned) :
         isKeyEvent(lastAction.spawned[i]) /\ lastAction.spawned[i].result = "failed"}

\* C25: the first key send that fails is the last process of the dispatch
\* (no later token is sent, the failed one is not sent again), the dispatch
\* returns an error and the process exits non-zero.
C25_FirstKeyFailureEndsDispatch ==
    lastAction.ran =>
        \A i \in failedKeyEvents :
            /\ i = Len(lastAction.spawned)
            /\ lastAction.err # ""
            /\ lastAction.exit # 0

C25_Witness ==
    /\ actionRan({"approve"})
    /\ lastAction.env.approveKeys = ""
    /\ lastAction.world.keyFailure = 1
    /\ Len(lastAction.spawned) = 2
    /\ failedKeyEvents = {2}
    /\ lastAction.exit = 1


\* ------------------------------------------------------------------ claims: one surface per request

attemptsOf(request) ==
    {i \in 1..Len(lastHook.attempts) : lastHook.attempts[i].request = request}

hookRequests == {lastHook.attempts[i].request : i \in 1..Len(lastHook.attempts)}

\* C29: a request is delivered by at most one surface: after a started popup
\* helper neither terminal-notifier nor osascript is run for it, after a
\* successful terminal-notifier no osascript; and a hook whose approval popup
\* started sends nothing else.
C29_AtMostOneSurfacePerRequest ==
    lastHook.ran =>
        /\ \A request \in hookRequests :
               /\ Cardinality({i \in attemptsOf(request) :
                                   lastHook.attempts[i].result \in {"started", "ok"}}) <= 1
               /\ \A i, j \in attemptsOf(request) :
                      /\ (lastHook.attempts[i].surface = "popup-helper"
                              /\ lastHook.attempts[i].result = "started")
                             => lastHook.attempts[j].surface = "popup-helper"
                      /\ (lastHook.attempts[i].surface = "terminal-notifier"
                              /\ lastHook.attempts[i].result = "ok")
                             => lastHook.attempts[j].surface # "osascript"
        /\ (\E i \in attemptsOf(0) : lastHook.attempts[i].result = "started")
               => Len(lastHook.attempts) = 1

C29_Witness ==
    /\ lastHook.ran
    /\ approvalEvent
    /\ Len(lastHook.attempts) = 1
    /\ lastHook.attempts[1].request = 0
    /\ lastHook.attempts[1].result = "started"
    /\ lastHook.world.terminalNotifier = "ok"
    /\ lastHook.world.osascript = "ok"

\* A hook with three requests, each delivered by its own popup helper.
ThreeRequestsDelivered ==
    /\ lastHook.ran
    /\ hookRequests = {1, 2, 3}
    /\ Len(lastHook.attempts) = 3


\* ------------------------------------------------------------------ claims: two options, two actions

twoLabelsDelivered ==
    /\ approvalPopupStarted
    /\ Len(nonBlank(deliveredOptions)) = 2

\* C30: the two choices made from two option labels never both send approve
\* and never both send reject.
C30_TwoOptionsTwoActions ==
    twoLabelsDelivered =>
        /\ Len(popupChoices) = 2
        /\ \A name \in {"approve", "reject"} :
               ~(/\ isActionCommand(popupChoices[1].Command, name)
                 /\ isActionCommand(popupChoices[2].Command, name))

\* An unknown label followed by a vocabulary word for approve: both approve.
UnknownThenYesBothApprove ==
    /\ twoLabelsDelivered
    /\ deliveredOptions = <<"Foo", "Yes">>
    /\ isActionCommand(popupChoices[1].Command, "approve")
    /\ isActionCommand(popupChoices[2].Command, "approve")

\* Two different labels outside the vocabulary do get different actions.
TwoUnknownLabelsTwoActions ==
    (twoLabelsDelivered
         /\ \A i \in 1..2 : actionForApprovalOption(nonBlank(deliveredOptions)[i], 2, 3) = "")
        => /\ isActionCommand(popupChoices[1].Command, "approve")
           /\ isActionCommand(popupChoices[2].Command, "reject")


\* ------------------------------------------------------------------ claims: the choices the helper shows

\* The (label, command) pairs of an argument vector written in the helper's
\* grammar: --choice-label L --choice-cmd C, in order.
pairsPassed(argv) ==
    [ k \in 1..Len(SelectSeq([i \in 1..Len(argv) |-> i],
                             LAMBDA i : /\ argv[i] = "--choice-label"
                                        /\ i + 3 <= Len(argv)
                                        /\ argv[i + 2] = "--choice-cmd")) |->
        [ label |-> TrimSpace(argv[SelectSeq([i \in 1..Len(argv) |-> i],
                                             LAMBDA i : /\ argv[i] = "--choice-label"
                                                        /\ i + 3 <= Len(argv)
                                                        /\ argv[i + 2] = "--choice-cmd")[k] + 1]),
          command |-> TrimSpace(argv[SelectSeq([i \in 1..Len(argv) |-> i],
                                               LAMBDA i : /\ argv[i] = "--choice-label"
                                                          /\ i + 3 <= Len(argv)
                                                          /\ argv[i + 2] = "--choice-cmd")[k] + 3]) ] ]

\* The pairs whose label and command are both non-empty after trimming.
survivingPairs(argv) ==
    SelectSeq(pairsPassed(argv), LAMBDA pair : pair.label # "" /\ pair.command # "")

defaultTripleShown ==
    config.choices = << [label |-> "Open", command |-> ""],
                        [label |-> "Approve", command |-> ""],
                        [label |-> "Reject", command |-> ""] >>

\* C26: the helper shows the default triple with empty commands exactly when
\* no pair survives, else the surviving pairs in argument order; a click on
\* a choice with an empty command runs nothing and closes the popup.
C26_DefaultTripleIffNoPairSurvives ==
    pc # "NotStarted" =>
        /\ defaultTripleShown <=> survivingPairs(helperArgs) = <<>>
        /\ survivingPairs(helperArgs) # <<>> => config.choices = survivingPairs(helperArgs)
        /\ defaultTripleShown =>
               /\ executed = <<>>
               /\ running = 0
               /\ outcome = "UserChose" => isClosing /\ pc \in {"Closing", "Terminated"}

C26_Witness ==
    /\ defaultTripleShown
    /\ pairsPassed(helperArgs) # <<>>
    /\ outcome = "UserChose"
    /\ pc = "Terminated"
    /\ executed = <<>>

\* A helper started with two pairs of which the second survives.
SecondPairSurvives ==
    /\ pc = "Displaying"
    /\ Len(pairsPassed(helperArgs)) = 2
    /\ Len(config.choices) = 1
    /\ config.choices[1].label = "No"


\* ------------------------------------------------------------------ claims: presenter to helper

\* The choices sendNativeApprovalNotification passes for the delivery, as
\* the helper's Choice values.
passedChoices ==
    [ i \in 1..Len(IF approvalChoicesFromPayload(lastHook.delivery.payload, deliveredThread)
                          = <<>>
                   THEN defaultApprovalChoices(deliveredThread)
                   ELSE approvalChoicesFromPayload(lastHook.delivery.payload,
                                                   deliveredThread)) |->
        [ label |-> (IF approvalChoicesFromPayload(lastHook.delivery.payload,
                                                   deliveredThread) = <<>>
                     THEN defaultApprovalChoices(deliveredThread)
                     ELSE approvalChoicesFromPayload(lastHook.delivery.payload,
                                                     deliveredThread))[i].Label,
          command |-> (IF approvalChoicesFromPayload(lastHook.delivery.payload,
                                                     deliveredThread) = <<>>
                       THEN defaultApprovalChoices(deliveredThread)
                       ELSE approvalChoicesFromPayload(lastHook.delivery.payload,
                                                       deliveredThread))[i].Command ] ]

helperParsedHookArgs == pc = "Idle" /\ approvalPopupStarted

\* C28: the choices the helper parses are the pairs the presenter passed, in
\* order, each label with its own command, whatever the message and the
\* labels are.
C28_ChoicesRoundTrip ==
    helperParsedHookArgs => config.choices = passedChoices

\* The round trip for messages and labels that are not flag names.
RoundTripWithoutFlagNames ==
    (helperParsedHookArgs
         /\ \A i \in 1..Len(lastHook.attempts[1].argv) :
                i % 2 = 0 => ~HasPrefix(lastHook.attempts[1].argv[i], "--"))
        => config.choices = passedChoices

\* An option labelled --choice-cmd reaches the helper.
FlagNameLabelParsed ==
    /\ helperParsedHookArgs
    /\ deliveredOptions = <<"Yes", "--choice-cmd", "Fix">>
    /\ config.choices # passedChoices


\* ------------------------------------------------------------------ claims: preparing the helper

\* The hooks that ran a compiler.
compiledBy == { h \in Hooks : build.content[h] # "none" }

\* Every hook has returned from ensureApprovalActionHelper.
allReturned == \A h \in Hooks : build.at[h] \in {"cached", "failed", "installed"}

\* C27: the popup helper is prepared once per content version: whenever the stored hash is
\* the hash of the embedded source, under any interleaving of concurrent hooks, the
\* installed binary exists and is a complete compile output of that source.
C27_StoredHashMeansCompleteBinary ==
    build.hash => /\ build.binary # 0
                  /\ build.content[build.binary] = "complete"

\* The first half of C27: a hook that checks the cache while the stored hash is the
\* expected one and the binary exists uses the binary and runs no compiler.
NoRecompileOnceCached ==
    [][\A h \in Hooks :
          (build.at[h] = "start" /\ build'.at[h] # "start" /\ build.hash /\ build.binary # 0)
              => build'.at[h] = "cached"]_vars

\* Two hooks on first use: one installs and records the hash while the file it moved into
\* place is the other compiler's unfinished output.
UnfinishedBinaryUnderCurrentHash ==
    /\ build.hash
    /\ build.binary # 0
    /\ build.content[build.binary] = "partial"
    /\ Cardinality(compiledBy) = 2

\* The unfinished binary stays: every hook has returned, the compiler that was writing it
\* failed, and later hooks find the hash current and the binary present.
UnfinishedBinaryStays ==
    /\ allReturned
    /\ build.hash
    /\ build.binary # 0
    /\ build.content[build.binary] = "partial"

\* With a single hook the stored hash does mean a complete binary.
SingleBuilderKeepsCacheSound ==
    Cardinality(compiledBy) <= 1 => C27_StoredHashMeansCompleteBinary


\* ------------------------------------------------------------------ claims: init and uninstall

\* The config file after the i-th command.
configAfter(i) ==
    IF i = Len(install.runs) THEN [exists |-> install.exists, text |-> install.text]
    ELSE install.runs[i + 1].before

\* The number of backup files after the i-th command.
backupsAfter(i) ==
    IF i = Len(install.runs) THEN Len(install.backups)
    ELSE install.runs[i + 1].backupsBefore

\* The lines of a text that open a TOML table, and those that set notify.
sectionHeaders(text) ==
    { k \in 1..Len(splitLines(text)) : HasPrefix(TrimSpace(splitLines(text)[k]), "[") }

notifyLines(text) ==
    { k \in 1..Len(splitLines(text)) : isRootNotifyLine(TrimSpace(splitLines(text)[k])) }

\* The i-th command is an init that found section headers and no notify line, and wrote
\* the config.
initInsertedIntoSections(i) ==
    /\ install.runs[i].cmd = "init"
    /\ install.runs[i].err = ""
    /\ sectionHeaders(install.runs[i].before.text) # {}
    /\ notifyLines(install.runs[i].before.text) = {}
    /\ configAfter(i) # install.runs[i].before

\* C24: after init on a config that has TOML section headers and no notify line, the
\* inserted notify line is at root level: before the first section header, never inside
\* a section.
C24_NotifyInsertedBeforeSections ==
    \A i \in 1..Len(install.runs) :
        initInsertedIntoSections(i) =>
            /\ notifyLines(configAfter(i).text) # {}
            /\ \A n \in notifyLines(configAfter(i).text) :
                   \A h \in sectionHeaders(configAfter(i).text) : n < h

\* init has put the notify line after every section header, i.e. into the last table.
NotifyInsertedIntoLastSection ==
    \E i \in 1..Len(install.runs) :
        /\ initInsertedIntoSections(i)
        /\ \A n \in notifyLines(configAfter(i).text) :
               \A h \in sectionHeaders(configAfter(i).text) : h < n

\* What init does instead: the notify line becomes the last line of the file.
NotifyInsertedAsLastLine ==
    \A i \in 1..Len(install.runs) :
        initInsertedIntoSections(i) =>
            notifyLines(configAfter(i).text) = {Len(splitLines(configAfter(i).text))}


\* The i-th command is an init that follows a successful init.
secondInit(i) ==
    /\ i > 1
    /\ install.runs[i - 1].cmd = "init"
    /\ install.runs[i - 1].err = ""
    /\ install.runs[i].cmd = "init"

\* C21: init is idempotent: whatever the config was (missing, empty, with or without a
\* notify line) and whatever --replace is, an init that follows a successful init leaves
\* the config file byte-identical and creates no further backup file.
C21_SecondInitChangesNothing ==
    \A i \in 1..Len(install.runs) :
        secondInit(i) =>
            /\ configAfter(i) = install.runs[i].before
            /\ backupsAfter(i) = install.runs[i].backupsBefore
            /\ install.runs[i].wrote = <<>>

\* A first init that backed up and rewrote a config with sections, then init --replace.
C21_Witness ==
    \E i \in 1..Len(install.runs) :
        /\ secondInit(i)
        /\ install.runs[i].flag
        /\ install.runs[i].err = ""
        /\ Len(install.runs[i - 1].wrote) = 2
        /\ sectionHeaders(install.runs[i - 1].before.text) # {}

\* The same after an init that created the missing config file.
SecondInitAfterCreatingConfig ==
    \E i \in 1..Len(install.runs) :
        /\ secondInit(i)
        /\ ~install.runs[i - 1].before.exists
        /\ configAfter(i).text = defaultNotifyLine \o "\n"


\* The content has a notify line that is not the codex-notify hook.
hasOtherNotifyLine(text) ==
    \E k \in notifyLines(text) : ~isCodexNotifyHookLine(TrimSpace(splitLines(text)[k]))

\* The i-th command wrote the config only after it had written a backup file, still
\* present, that holds exactly the config it found.
backedUpBeforeOverwrite(i) ==
    /\ Len(install.runs[i].wrote) = 2
    /\ install.runs[i].wrote[1] = [file |-> "backup", content |-> install.runs[i].before.text]
    /\ install.runs[i].wrote[2].file = "config"
    /\ backupsAfter(i) = install.runs[i].backupsBefore + 1
    /\ install.backups[backupsAfter(i)].content = install.runs[i].before.text
    /\ \A k \in 1..install.runs[i].backupsBefore :
           install.backups[k].time < install.backups[backupsAfter(i)].time

\* The i-th command is an init that changed a pre-existing non-empty config.
initChangedConfig(i) ==
    /\ install.runs[i].cmd = "init"
    /\ install.runs[i].before.exists
    /\ install.runs[i].before.text # ""
    /\ configAfter(i) # install.runs[i].before

\* The i-th command failed and left the config and the set of backups as they were.
refused(i) ==
    /\ install.runs[i].err # ""
    /\ install.runs[i].wrote = <<>>
    /\ configAfter(i) = install.runs[i].before
    /\ backupsAfter(i) = install.runs[i].backupsBefore

OtherNotifyLineYetInitSucceeds ==
    \E i \in 1..Len(install.runs) :
        /\ install.runs[i].cmd = "init"
        /\ ~install.runs[i].flag
        /\ hasOtherNotifyLine(install.runs[i].before.text)
        /\ install.runs[i].err = ""
        /\ configAfter(i) = install.runs[i].before


\* The i-th command is an uninstall with --restore-config (the default) that met no
\* failing file write, after at least one successful init.
restoringUninstall(i) ==
    /\ install.runs[i].cmd = "uninstall"
    /\ install.runs[i].flag
    /\ install.runs[i].err # "restore config"
    /\ \E j \in 1..(i - 1) : install.runs[j].cmd = "init" /\ install.runs[j].err = ""

\* The backups the i-th command found that init had created.
initBackupsBefore(i) ==
    { k \in 1..install.runs[i].backupsBefore : install.backups[k].by = "init" }

\* C23: after any sequence of init and uninstall, uninstall with restore replaces the
\* config with the content of the latest backup created by init, which is the config the
\* user had before codex-notify was installed.
C23_UninstallRestoresLatestInitBackup ==
    \A i \in 1..Len(install.runs) :
        restoringUninstall(i) =>
            /\ install.runs[i].err = ""
            /\ initBackupsBefore(i) # {}
            /\ \A k \in initBackupsBefore(i) :
                   (\A m \in initBackupsBefore(i) : m <= k)
                       => configAfter(i).text = install.backups[k].content

\* init created the missing config file, so there is no backup: uninstall fails with
\* `no backup found; cannot restore` and the hook stays configured.
FreshInstallCannotBeUninstalled ==
    /\ Len(install.runs) = 2
    /\ install.runs[1].cmd = "init"
    /\ ~install.runs[1].before.exists
    /\ install.runs[1].err = ""
    /\ restoringUninstall(2)
    /\ install.runs[2].err = "no backup found; cannot restore"
    /\ configHasCodexNotify(install.text)

\* init, uninstall --restore-config=false, uninstall: the latest backup is the one the
\* second command made of the installed config, and the third brings the hook back.
RestoreBringsHookBack ==
    /\ Len(install.runs) = 3
    /\ install.runs[1].cmd = "init"
    /\ Len(install.runs[1].wrote) = 2
    /\ install.runs[2].cmd = "uninstall"
    /\ ~install.runs[2].flag
    /\ Len(install.runs[2].wrote) = 2
    /\ ~configHasCodexNotify(install.runs[3].before.text)
    /\ restoringUninstall(3)
    /\ install.runs[3].err = ""
    /\ configHasCodexNotify(install.text)

\* What uninstall does: it writes the content of the newest backup, whoever made it.
RestoreTakesNewestBackup ==
    \A i \in 1..Len(install.runs) :
        ( /\ install.runs[i].cmd = "uninstall"
          /\ install.runs[i].flag
          /\ Len(install.runs[i].wrote) = 1 ) =>
            /\ install.runs[i].backupsBefore > 0
            /\ configAfter(i).text = install.backups[install.runs[i].backupsBefore].content

\* An uninstall right after an init that backed the config up does restore that config.
RestoreRightAfterBackedUpInit ==
    \A i \in 2..Len(install.runs) :
        ( /\ restoringUninstall(i)
          /\ install.runs[i - 1].cmd = "init"
          /\ Len(install.runs[i - 1].wrote) = 2 ) =>
            configAfter(i) = install.runs[i - 1].before

====
